---- MODULE Spec2Model ----
(***************************************************************************)
(* BeatZGPT text humaniser: the HumanizationPipeline orchestrator           *)
(* (src/src/core/pipeline.py), its three engines (space_manipulator.py,     *)
(* syntax_restructurer.py, semantic_replacer.py) and the quality metrics    *)
(* (src/src/nlp/analyzers.py).                                              *)
(*                                                                          *)
(* A text is a sequence of characters; a character is a one-character       *)
(* string, except that the eight non-ASCII space variants are written by    *)
(* their code point ("U+00A0", ...).  Real numbers in [0,1] (intensity,     *)
(* similarity, threshold) are integer percentages; a readability grade is   *)
(* an integer number of tenths.                                             *)
(***************************************************************************)
EXTENDS Integers, Sequences, FiniteSets, TLC

(***************************************************************************)
(* Characters and the str methods the code uses.                            *)
(***************************************************************************)
LowerLetters ==
    <<"a","b","c","d","e","f","g","h","i","j","k","l","m",
      "n","o","p","q","r","s","t","u","v","w","x","y","z">>

UpperLetters ==
    <<"A","B","C","D","E","F","G","H","I","J","K","L","M",
      "N","O","P","Q","R","S","T","U","V","W","X","Y","Z">>

\* SPACE_VARIANTS['standard'], U+0020
SP == " "

\* the line break
NL == "\n"

\* SpaceManipulator.variants: SPACE_VARIANTS without 'standard', in dict order
Variants ==
    <<"U+00A0", "U+2002", "U+2003", "U+2009", "U+200A", "U+200B", "U+2007", "U+202F">>

\* The key order of SPACE_VARIANTS: 'standard' first, then the eight variants
SpaceClass ==
    <<SP>> \o Variants

Range(s) ==
    {s[i] : i \in 1..Len(s)}

\* The characters str.strip() and str.split() without argument treat as white
\* space, among those a text of the model can hold: U+200B (zero width space,
\* category Cf) is not white space for Python, the other variants (Zs) are.
WhiteSpace ==
    {SP, NL, "\t"} \cup (Range(Variants) \ {"U+200B"})

\* str.isspace() of one character
IsSpace(c) ==
    c \in WhiteSpace

IsUpper(c) ==
    c \in Range(UpperLetters)

IsLower(c) ==
    c \in Range(LowerLetters)

LetterIndex(c, letters) ==
    CHOOSE i \in 1..Len(letters) : letters[i] = c

ToLower(c) ==
    IF IsUpper(c) THEN LowerLetters[LetterIndex(c, UpperLetters)] ELSE c

ToUpper(c) ==
    IF IsLower(c) THEN UpperLetters[LetterIndex(c, LowerLetters)] ELSE c

\* str.lower()
Lower(s) ==
    [i \in 1..Len(s) |-> ToLower(s[i])]

\* str.capitalize(): first character upper-cased, all the others lower-cased
Capitalize(s) ==
    [i \in 1..Len(s) |-> IF i = 1 THEN ToUpper(s[i]) ELSE ToLower(s[i])]

\* s[i:] and s[:j] with 1-based i, j
From(s, i) ==
    SubSeq(s, i, Len(s))

StartsWith(s, p) ==
    Len(p) <= Len(s) /\ SubSeq(s, 1, Len(p)) = p

EndsWith(s, p) ==
    Len(p) <= Len(s) /\ SubSeq(s, Len(s) - Len(p) + 1, Len(s)) = p

\* The least index >= from at which sub occurs in s, 0 when there is none
\* (str.find, 1-based).
Find(s, sub, from) ==
    LET hits == {i \in from..(Len(s) - Len(sub) + 1) : SubSeq(s, i, i + Len(sub) - 1) = sub}
    IN  IF hits = {} THEN 0 ELSE CHOOSE i \in hits : \A j \in hits : i <= j

\* sub in s
Contains(s, sub) ==
    Find(s, sub, 1) # 0

\* str.replace(old, new): every non-overlapping occurrence, left to right
\* (old is never empty here).
RECURSIVE Replace(_, _, _)
Replace(s, old, new) ==
    LET i == Find(s, old, 1)
    IN  IF i = 0 THEN s
        ELSE SubSeq(s, 1, i - 1) \o new \o Replace(From(s, i + Len(old)), old, new)

\* str.lstrip(chars) / str.rstrip(chars) / str.strip(chars), chars a set
RECURSIVE LStrip(_, _)
LStrip(s, chars) ==
    IF s # <<>> /\ s[1] \in chars THEN LStrip(Tail(s), chars) ELSE s

RECURSIVE RStrip(_, _)
RStrip(s, chars) ==
    IF s # <<>> /\ s[Len(s)] \in chars THEN RStrip(SubSeq(s, 1, Len(s) - 1), chars) ELSE s

Strip(s, chars) ==
    LStrip(RStrip(s, chars), chars)

\* The numbers of the set S in increasing order
RECURSIVE Ordered(_)
Ordered(S) ==
    IF S = {} THEN <<>>
    ELSE <<CHOOSE i \in S : \A j \in S : i <= j>>
             \o Ordered(S \ {CHOOSE i \in S : \A j \in S : i <= j})

\* The last index of the run of s that starts at i and stops before the next
\* of the indices breaks
RunEnd(s, i, breaks) ==
    IF {j \in breaks : j > i} = {} THEN Len(s)
    ELSE (CHOOSE j \in breaks : j > i /\ \A m \in breaks : m > i => j <= m) - 1

\* The runs of s from the indices starts (in increasing order) up to the next
\* of the indices breaks
Runs(s, starts, breaks) ==
    [k \in 1..Len(starts) |-> SubSeq(s, starts[k], RunEnd(s, starts[k], breaks))]

\* The indices of breaks, and the indices after an index of breaks that are
\* not in breaks themselves: where the runs between breaks start
RunStarts(s, breaks) ==
    {i \in (1..Len(s)) \ breaks : i = 1 \/ i - 1 \in breaks}

\* str.split(): the maximal runs of non-white-space characters
Split(s) ==
    Runs(s, Ordered(RunStarts(s, {i \in 1..Len(s) : IsSpace(s[i])})),
         {i \in 1..Len(s) : IsSpace(s[i])})

\* sep.join(parts)
RECURSIVE Join(_, _)
Join(parts, sep) ==
    IF parts = <<>> THEN <<>>
    ELSE IF Len(parts) = 1 THEN parts[1]
    ELSE parts[1] \o sep \o Join(Tail(parts), sep)

\* str.split(sep, 1) for a one-character sep: at most two parts
SplitFirst(s, sep) ==
    LET i == Find(s, <<sep>>, 1)
    IN  IF i = 0 THEN <<s>> ELSE <<SubSeq(s, 1, i - 1), From(s, i + 1)>>

\* str.count(c) for one character
Count(s, c) ==
    Cardinality({i \in 1..Len(s) : s[i] = c})


(***************************************************************************)
(* random.Random(seed).  The generator is a deterministic stream: its state *)
(* is a number below RngPeriod, every draw reads the state and advances it. *)
(* random() is the percentage of the unit interval the state stands for     *)
(* (always < 100, as random() < 1.0), choice(seq) indexes seq by the state. *)
(***************************************************************************)
RngPeriod == 16

RngStates ==
    0..(RngPeriod - 1)

\* A seed argument is <<>> for None and <<n>> for the integer n
NoSeed ==
    <<>>

\* random.Random(n) for an integer n: the state is a function of the seed
Seeded(n) ==
    n % RngPeriod

\* random.Random(None) seeds from the operating system's entropy: any state;
\* these are the ones the model lets it produce.
Entropy ==
    {3, 11}

\* The states random.Random(seed) may start in
RngInit(seed) ==
    IF seed = NoSeed THEN Entropy ELSE {Seeded(seed[1])}

\* The state after one draw
RngNext(s) ==
    (5 * s + 3) % RngPeriod

\* A draw from the closed unit interval: what RandomPct must differ from
RandomPctClosed(s) ==
    (s * 100) \div (RngPeriod - 1)

\* self.random.random(), in percent
RandomPct(s) ==
    (s * 100) \div RngPeriod

\* self.random.choice(seq)
Choice(s, seq) ==
    seq[(s % Len(seq)) + 1]

\* A check of the lower bound alone: what IntensityValid must differ from
IntensityNotNegative(intensity) ==
    0 <= intensity

(***************************************************************************)
(* SpaceManipulator (src/src/core/space_manipulator.py).                    *)
(***************************************************************************)
\* SpaceManipulator.__init__: the intensity check
IntensityValid(intensity) ==
    0 <= intensity /\ intensity <= 100

\* A boundary test that looks at the ends of the text only: what IsBoundary
\* must differ from
IsBoundaryEnds(text, i) ==
    \/ i = 1
    \/ i = Len(text)

\* is_start or is_end or is_line_boundary, for the space at index i (1-based)
IsBoundary(text, i) ==
    \/ i = 1
    \/ i = Len(text)
    \/ (i > 1 /\ text[i - 1] = NL)
    \/ (i < Len(text) /\ text[i + 1] = NL)

\* A test for any whitespace: what Replaceable must differ from
ReplaceableAnySpace(char) ==
    IsSpace(char)

\* char == standard_space
Replaceable(char) ==
    char = SP

\* The least index >= i of text that holds a space to replace, 0 when there
\* is none
NextReplaceable(text, i) ==
    IF {k \in i..Len(text) : Replaceable(text[k])} = {} THEN 0
    ELSE CHOOSE k \in i..Len(text) :
             /\ Replaceable(text[k])
             /\ \A m \in i..(k - 1) : ~Replaceable(text[m])

\* The loop of replace_spaces from index i on; the value is the joined result
\* and the generator's state after the call.
\* The characters other than spaces are copied as they are: the loop goes
\* from one space to the next.
RECURSIVE ReplaceLoop(_, _, _, _, _, _)
ReplaceLoop(text, i, preserve_boundaries, intensity, rng, result) ==
    LET j == NextReplaceable(text, i)
    IN  IF j = 0 THEN [text |-> result \o From(text, i), rng |-> rng]
        ELSE IF preserve_boundaries /\ IsBoundary(text, j)
             THEN ReplaceLoop(text, j + 1, preserve_boundaries, intensity, rng,
                              result \o SubSeq(text, i, j))
        ELSE IF RandomPct(rng) < intensity
             THEN ReplaceLoop(text, j + 1, preserve_boundaries, intensity,
                              RngNext(RngNext(rng)),
                              Append(result \o SubSeq(text, i, j - 1),
                                     Choice(RngNext(rng), Variants)))
        ELSE ReplaceLoop(text, j + 1, preserve_boundaries, intensity, RngNext(rng),
                         result \o SubSeq(text, i, j))

\* A replacement that draws for every space, at intensity 0 too, and replaces
\* on random() <= intensity: what replace_spaces must differ from
replace_spacesInclusive(text, preserve_boundaries, intensity, rng) ==
    ReplaceLoop(text, 1, preserve_boundaries, intensity + 1, rng, <<>>)

\* A replacement that spends one draw before the loop, a draw that belongs to
\* no candidate space: what replace_spaces must differ from
replace_spacesExtraDraw(text, preserve_boundaries, intensity, rng) ==
    IF text = <<>> \/ intensity = 0
    THEN [text |-> text, rng |-> rng]
    ELSE ReplaceLoop(text, 1, preserve_boundaries, intensity, RngNext(rng), <<>>)

\* replace_spaces: the text and the generator untouched for an empty text or
\* intensity 0.0, else the loop
replace_spaces(text, preserve_boundaries, intensity, rng) ==
    IF text = <<>> \/ intensity = 0
    THEN [text |-> text, rng |-> rng]
    ELSE ReplaceLoop(text, 1, preserve_boundaries, intensity, rng, <<>>)

\* analyze_distribution: the count of every space-class character, by name order
analyze_distribution(text) ==
    [i \in 1..Len(SpaceClass) |-> Count(text, SpaceClass[i])]

RECURSIVE Sum(_)
Sum(s) ==
    IF s = <<>> THEN 0 ELSE Head(s) + Sum(Tail(s))

\* get_replacement_stats; the rate is in whole percent
\* (total_replaced / total_original * 100 rounded down, 0 when total_original is 0).
get_replacement_stats(original, modified) ==
    LET orig_dist == analyze_distribution(original)
        mod_dist == analyze_distribution(modified)
        total_original == Sum(orig_dist)
        total_replaced == total_original - mod_dist[1]
    IN  [total_spaces |-> total_original,
         spaces_replaced |-> total_replaced,
         replacement_rate |-> IF total_original > 0
                              THEN (total_replaced * 100) \div total_original
                              ELSE 0]

(***************************************************************************)
(* SemanticReplacer (src/src/core/semantic_replacer.py): the tables, in the *)
(* iteration order of the dictionaries.                                     *)
(***************************************************************************)
DISCOURSE_MARKERS ==
    << [marker |-> <<"h","o","w","e","v","e","r">>,
        alternatives |-> <<<<"n","e","v","e","r","t","h","e","l","e","s","s">>, <<"n","o","n","e","t","h","e","l","e","s","s">>, <<"t","h","a","t"," ","s","a","i","d">>, <<"o","n"," ","t","h","e"," ","o","t","h","e","r"," ","h","a","n","d">>, <<"c","o","n","v","e","r","s","e","l","y">>, <<"y","e","t">>>>],
       [marker |-> <<"t","h","e","r","e","f","o","r","e">>,
        alternatives |-> <<<<"t","h","u","s">>, <<"h","e","n","c","e">>, <<"c","o","n","s","e","q","u","e","n","t","l","y">>, <<"a","s"," ","a"," ","r","e","s","u","l","t">>, <<"a","c","c","o","r","d","i","n","g","l","y">>, <<"f","o","r"," ","t","h","i","s"," ","r","e","a","s","o","n">>>>],
       [marker |-> <<"a","d","d","i","t","i","o","n","a","l","l","y">>,
        alternatives |-> <<<<"f","u","r","t","h","e","r","m","o","r","e">>, <<"m","o","r","e","o","v","e","r">>, <<"w","h","a","t","'","s"," ","m","o","r","e">>, <<"b","e","y","o","n","d"," ","t","h","a","t">>, <<"i","n"," ","a","d","d","i","t","i","o","n">>, <<"a","l","s","o">>>>],
       [marker |-> <<"i","n"," ","c","o","n","c","l","u","s","i","o","n">>,
        alternatives |-> <<<<"u","l","t","i","m","a","t","e","l","y">>, <<"i","n"," ","s","u","m","m","a","r","y">>, <<"t","o"," ","s","u","m"," ","u","p">>, <<"a","l","l"," ","t","h","i","n","g","s"," ","c","o","n","s","i","d","e","r","e","d">>, <<"i","n"," ","t","h","e"," ","e","n","d">>>>],
       [marker |-> <<"f","o","r"," ","e","x","a","m","p","l","e">>,
        alternatives |-> <<<<"f","o","r"," ","i","n","s","t","a","n","c","e">>, <<"s","u","c","h"," ","a","s">>, <<"l","i","k","e">>, <<"n","a","m","e","l","y">>, <<"t","o"," ","i","l","l","u","s","t","r","a","t","e">>>>],
       [marker |-> <<"i","n"," ","o","t","h","e","r"," ","w","o","r","d","s">>,
        alternatives |-> <<<<"t","h","a","t"," ","i","s"," ","t","o"," ","s","a","y">>, <<"p","u","t"," ","d","i","f","f","e","r","e","n","t","l","y">>, <<"t","o"," ","p","u","t"," ","i","t"," ","a","n","o","t","h","e","r"," ","w","a","y">>, <<"n","a","m","e","l","y">>>>],
       [marker |-> <<"f","i","r","s","t">>,
        alternatives |-> <<<<"f","i","r","s","t","l","y">>, <<"t","o"," ","b","e","g","i","n"," ","w","i","t","h">>, <<"i","n","i","t","i","a","l","l","y">>, <<"f","i","r","s","t"," ","o","f"," ","a","l","l">>>>],
       [marker |-> <<"f","i","n","a","l","l","y">>,
        alternatives |-> <<<<"l","a","s","t","l","y">>, <<"i","n"," ","t","h","e"," ","e","n","d">>, <<"u","l","t","i","m","a","t","e","l","y">>, <<"t","o"," ","c","o","n","c","l","u","d","e">>>>] >>

PHRASE_SUBSTITUTIONS ==
    << [phrase |-> <<"i","n"," ","o","r","d","e","r"," ","t","o">>,
        alternatives |-> <<<<"t","o">>, <<"s","o"," ","a","s"," ","t","o">>, <<"f","o","r"," ","t","h","e"," ","p","u","r","p","o","s","e"," ","o","f">>>>],
       [phrase |-> <<"d","u","e"," ","t","o"," ","t","h","e"," ","f","a","c","t"," ","t","h","a","t">>,
        alternatives |-> <<<<"b","e","c","a","u","s","e">>, <<"s","i","n","c","e">>, <<"a","s">>, <<"g","i","v","e","n"," ","t","h","a","t">>>>],
       [phrase |-> <<"a","t"," ","t","h","i","s"," ","p","o","i","n","t"," ","i","n"," ","t","i","m","e">>,
        alternatives |-> <<<<"n","o","w">>, <<"c","u","r","r","e","n","t","l","y">>, <<"a","t"," ","p","r","e","s","e","n","t">>>>],
       [phrase |-> <<"i","n"," ","t","h","e"," ","e","v","e","n","t"," ","t","h","a","t">>,
        alternatives |-> <<<<"i","f">>, <<"s","h","o","u","l","d">>, <<"i","n"," ","c","a","s","e">>>>],
       [phrase |-> <<"w","i","t","h"," ","r","e","g","a","r","d"," ","t","o">>,
        alternatives |-> <<<<"r","e","g","a","r","d","i","n","g">>, <<"c","o","n","c","e","r","n","i","n","g">>, <<"a","b","o","u","t">>>>],
       [phrase |-> <<"a"," ","n","u","m","b","e","r"," ","o","f">>,
        alternatives |-> <<<<"s","e","v","e","r","a","l">>, <<"m","a","n","y">>, <<"s","o","m","e">>>>],
       [phrase |-> <<"i","n"," ","s","p","i","t","e"," ","o","f">>,
        alternatives |-> <<<<"d","e","s","p","i","t","e">>, <<"n","o","t","w","i","t","h","s","t","a","n","d","i","n","g">>>>],
       [phrase |-> <<"p","r","i","o","r"," ","t","o">>,
        alternatives |-> <<<<"b","e","f","o","r","e">>>>],
       [phrase |-> <<"s","u","b","s","e","q","u","e","n","t"," ","t","o">>,
        alternatives |-> <<<<"a","f","t","e","r">>, <<"f","o","l","l","o","w","i","n","g">>>>],
       [phrase |-> <<"i","n"," ","t","h","e"," ","p","r","o","c","e","s","s"," ","o","f">>,
        alternatives |-> <<<<"c","u","r","r","e","n","t","l","y">>, <<"w","h","i","l","e">>>>] >>

\* SYNONYM_GROUPS: word |-> formality |-> synonyms
SYNONYM_GROUPS ==
    << [word |-> <<"i","m","p","o","r","t","a","n","t">>,
        formal |-> <<<<"p","a","r","a","m","o","u","n","t">>, <<"c","r","u","c","i","a","l">>, <<"v","i","t","a","l">>, <<"e","s","s","e","n","t","i","a","l">>>>,
        technical |-> <<<<"c","r","i","t","i","c","a","l">>, <<"s","i","g","n","i","f","i","c","a","n","t">>, <<"k","e","y">>>>,
        casual |-> <<<<"b","i","g">>, <<"m","a","j","o","r">>, <<"m","a","i","n">>>>],
       [word |-> <<"s","h","o","w">>,
        formal |-> <<<<"d","e","m","o","n","s","t","r","a","t","e">>, <<"i","l","l","u","s","t","r","a","t","e">>, <<"e","x","h","i","b","i","t">>>>,
        technical |-> <<<<"i","n","d","i","c","a","t","e">>, <<"r","e","v","e","a","l">>, <<"d","i","s","p","l","a","y">>>>,
        casual |-> <<<<"p","r","o","v","e">>, <<"p","o","i","n","t"," ","o","u","t">>>>],
       [word |-> <<"i","m","p","r","o","v","e">>,
        formal |-> <<<<"e","n","h","a","n","c","e">>, <<"a","u","g","m","e","n","t">>, <<"o","p","t","i","m","i","z","e">>>>,
        technical |-> <<<<"r","e","f","i","n","e">>, <<"a","d","v","a","n","c","e">>, <<"u","p","g","r","a","d","e">>>>,
        casual |-> <<<<"b","o","o","s","t">>, <<"b","e","t","t","e","r">>, <<"f","i","x"," ","u","p">>>>],
       [word |-> <<"u","s","e">>,
        formal |-> <<<<"u","t","i","l","i","z","e">>, <<"e","m","p","l","o","y">>, <<"a","p","p","l","y">>>>,
        technical |-> <<<<"i","m","p","l","e","m","e","n","t">>, <<"d","e","p","l","o","y">>, <<"l","e","v","e","r","a","g","e">>>>,
        casual |-> <<<<"t","r","y">>, <<"w","o","r","k"," ","w","i","t","h">>>>] >>

\* The formality levels the groups are keyed by
Formalities ==
    {"formal", "technical", "casual"}

\* reverse_nominalization: the nominalizations dictionary
NOMINALIZATIONS ==
    << [nominal |-> <<"i","m","p","l","e","m","e","n","t","a","t","i","o","n"," ","o","f">>, verbal |-> <<"i","m","p","l","e","m","e","n","t","i","n","g">>],
       [nominal |-> <<"c","o","m","p","l","e","t","i","o","n"," ","o","f">>, verbal |-> <<"c","o","m","p","l","e","t","i","n","g">>],
       [nominal |-> <<"d","e","v","e","l","o","p","m","e","n","t"," ","o","f">>, verbal |-> <<"d","e","v","e","l","o","p","i","n","g">>],
       [nominal |-> <<"c","r","e","a","t","i","o","n"," ","o","f">>, verbal |-> <<"c","r","e","a","t","i","n","g">>],
       [nominal |-> <<"a","n","a","l","y","s","i","s"," ","o","f">>, verbal |-> <<"a","n","a","l","y","z","i","n","g">>],
       [nominal |-> <<"e","v","a","l","u","a","t","i","o","n"," ","o","f">>, verbal |-> <<"e","v","a","l","u","a","t","i","n","g">>],
       [nominal |-> <<"e","x","a","m","i","n","a","t","i","o","n"," ","o","f">>, verbal |-> <<"e","x","a","m","i","n","i","n","g">>] >>

(***************************************************************************)
(* NLPParser (src/src/nlp/parsers.py).  The spaCy model behind parse() is   *)
(* an external collaborator; what stands for it here is a fixed stand-in    *)
(* that tokenises on white space and punctuation and annotates a token from *)
(* a small lexicon, enough to give the inputs of the model their passive    *)
(* subjects, agents, participles, clauses and content words.                *)
(***************************************************************************)
\* The punctuation characters of '.,;:!?', in that order
PUNCT ==
    <<".", ",", ";", ":", "!", "?">>

Punct ==
    Range(PUNCT)

\* The indices of the characters that end a token: white space and
\* punctuation
TokenBreaks(s) ==
    {i \in 1..Len(s) : IsSpace(s[i]) \/ s[i] = "U+200B" \/ s[i] \in Punct}

\* The indices at which a token starts: a punctuation character, or the
\* first character of a run between token breaks
TokenStarts(s, breaks) ==
    {i \in 1..Len(s) : s[i] \in Punct} \cup RunStarts(s, breaks)

\* The tokens of s that start at the indices starts (in increasing order); a
\* punctuation character is a token of its own
TokensAt(s, starts, breaks) ==
    [k \in 1..Len(starts) |->
        IF s[starts[k]] \in Punct THEN <<s[starts[k]]>>
        ELSE SubSeq(s, starts[k], RunEnd(s, starts[k], breaks))]

\* doc: the token texts of parse(text), in order
Tokenize(text) ==
    TokensAt(text, Ordered(TokenStarts(text, TokenBreaks(text))), TokenBreaks(text))

\* The stand-in lexicon
LexVerbs ==
    {<<"i","m","p","r","o","v","e">>, <<"w","o","r","k","s">>, <<"c","o","m","p","l","e","t","e","d">>, <<"s","h","o","w","s">>}

LexAdjectives ==
    {<<"i","m","p","o","r","t","a","n","t">>, <<"s","i","g","n","i","f","i","c","a","n","t">>}

LexAdverbs ==
    {<<"q","u","i","c","k","l","y">>}

LexParticiples ==
    {<<"c","o","m","p","l","e","t","e","d">>, <<"d","e","s","i","g","n","e","d">>}

LexPassiveAux ==
    {<<"w","a","s">>, <<"w","e","r","e">>}

LexDeterminers ==
    {<<"t","h","e">>, <<"a">>}

LexPrepositions ==
    {<<"o","f">>, <<"i","n">>, <<"t","o">>}

\* token.lemma_
Lemma(word) ==
    IF Lower(word) = <<"c","o","m","p","l","e","t","e","d">> THEN <<"c","o","m","p","l","e","t","e">>
    ELSE IF Lower(word) = <<"d","e","s","i","g","n","e","d">> THEN <<"d","e","s","i","g","n">>
    ELSE Lower(word)

\* token.pos_
PosOf(word) ==
    IF Lower(word) \in LexVerbs THEN "VERB"
    ELSE IF Lower(word) \in LexAdjectives THEN "ADJ"
    ELSE IF Lower(word) \in LexAdverbs THEN "ADV"
    ELSE IF word[1] \in Punct THEN "PUNCT"
    ELSE "X"

\* Whether token k is a participle whose child is a passive auxiliary
\* (token.tag_ == "VBN" and any(child.dep_ == "auxpass" ...))
IsPassiveVerb(toks, k) ==
    /\ k > 1
    /\ k <= Len(toks)
    /\ Lower(toks[k]) \in LexParticiples
    /\ Lower(toks[k - 1]) \in LexPassiveAux

IsNoun(word) ==
    /\ word[1] \notin Punct
    /\ Lower(word) \notin (LexDeterminers \cup LexPrepositions \cup LexPassiveAux
                           \cup LexParticiples \cup {<<"b","y">>})

\* token.dep_ of token k, as far as the code reads it
DepOf(toks, k) ==
    IF k < Len(toks) /\ IsPassiveVerb(toks, k + 1) THEN "auxpass"
    ELSE IF IsPassiveVerb(toks, k) THEN "ROOT"
    ELSE IF Lower(toks[k]) = <<"b","y">> /\ k > 1 /\ IsPassiveVerb(toks, k - 1) THEN "agent"
    ELSE IF /\ IsNoun(toks[k])
            /\ \E a \in (k + 1)..Len(toks) :
                  /\ IsPassiveVerb(toks, a + 1)
                  /\ \A j \in (k + 1)..(a - 1) : ~IsNoun(toks[j])
         THEN "nsubjpass"
    ELSE IF /\ IsNoun(toks[k])
            /\ \E b \in 1..(k - 1) :
                  /\ Lower(toks[b]) = <<"b","y">>
                  /\ \A j \in (b + 1)..(k - 1) : Lower(toks[j]) \in LexDeterminers
         THEN "pobj_by"
    ELSE IF Lower(toks[k]) \in LexPrepositions THEN "prep"
    ELSE IF Lower(toks[k]) = <<"b","e","c","a","u","s","e">> THEN "mark"
    ELSE "dep"

\* NLPParser.is_passive_voice
is_passive_voice(sentence) ==
    LET toks == Tokenize(sentence)
    IN  \E k \in 1..Len(toks) : DepOf(toks, k) = "nsubjpass" \/ IsPassiveVerb(toks, k)

\* NLPParser.find_clauses: whether clauses['dependent'] is non-empty (a token
\* with dep_ advcl, ccomp or xcomp: here, a clause opened by "because")
HasDependentClause(sentence) ==
    LET toks == Tokenize(sentence)
    IN  \E k \in 1..Len(toks) : DepOf(toks, k) = "mark"

\* The indices at which a sentence of doc.sents ends: a '.', '!' or '?'
\* before white space, and the end of the text
SentenceEnds(s) ==
    {i \in 1..Len(s) : i = Len(s) \/ (s[i] \in {".", "!", "?"} /\ IsSpace(s[i + 1]))}

\* The stretches of s up to each of the indices ends (in increasing order),
\* stripped; white space after the last sentence is no sentence
SentencesAt(s, ends) ==
    LET all == [k \in 1..Len(ends) |->
                   Strip(SubSeq(s, IF k = 1 THEN 1 ELSE ends[k - 1] + 1, ends[k]),
                         WhiteSpace)]
    IN  IF all # <<>> /\ all[Len(all)] = <<>> THEN SubSeq(all, 1, Len(all) - 1) ELSE all

\* NLPParser.get_sentences: doc.sents, each stripped
get_sentences(text) ==
    SentencesAt(text, Ordered(SentenceEnds(text)))

(***************************************************************************)
(* SyntaxRestructurer (src/src/core/syntax_restructurer.py).  A confidence  *)
(* is a percentage.                                                         *)
(***************************************************************************)
\* The last of the token indices hits, 0 when there is none
LastIndex(hits) ==
    IF hits = {} THEN 0 ELSE CHOOSE k \in hits : \A j \in hits : j <= k

\* [t for t in seq if ...], keep being the indices that pass the test
RECURSIVE FilterIdx(_, _, _)
FilterIdx(seq, keep, k) ==
    IF k > Len(seq) THEN <<>>
    ELSE (IF k \in keep THEN <<seq[k]>> ELSE <<>>) \o FilterIdx(seq, keep, k + 1)

\* A conversion that is confident for every sentence flagged passive, whether
\* or not the roles were found: what passive_to_active must differ from
passive_to_activeUnchecked(sentence) ==
    IF is_passive_voice(sentence)
    THEN [text |-> Capitalize(sentence), conf |-> 80]
    ELSE [text |-> sentence, conf |-> 0]

\* SyntaxRestructurer.passive_to_active: the last token of each role is kept
passive_to_active(sentence) ==
    IF ~is_passive_voice(sentence) THEN [text |-> sentence, conf |-> 0]
    ELSE
    LET doc == Tokenize(sentence)
        IsSubj(k) == DepOf(doc, k) = "nsubjpass"
        IsAgent(k) == ~IsSubj(k) /\ DepOf(doc, k) \in {"agent", "pobj_by"}
        IsVerb(k) == ~IsSubj(k) /\ ~IsAgent(k) /\ IsPassiveVerb(doc, k)
        passive_subject == LastIndex({k \in 1..Len(doc) : IsSubj(k)})
        agent == LastIndex({k \in 1..Len(doc) : IsAgent(k)})
        main_verb == LastIndex({k \in 1..Len(doc) : IsVerb(k)})
        Remains(k) ==
            /\ k \notin {agent, passive_subject, main_verb}
            /\ DepOf(doc, k) \notin {"auxpass", "agent", "prep"}
            /\ Lower(doc[k]) \notin {<<"w","a","s">>, <<"w","e","r","e">>, <<"b","e","e","n">>, <<"b","y">>, <<"t","h","e">>}
        remaining == FilterIdx(doc, {k \in 1..Len(doc) : Remains(k)}, 1)
        new_sentence ==
            Capitalize(doc[agent]) \o <<SP>> \o Lemma(doc[main_verb]) \o <<SP>>
                \o doc[passive_subject]
    IN  IF agent # 0 /\ passive_subject # 0 /\ main_verb # 0
        THEN [text |-> new_sentence
                       \o (IF remaining # <<>> THEN <<SP>> \o Join(remaining, <<SP>>)
                           ELSE <<>>)
                       \o <<".">>,
              conf |-> 80]
        ELSE [text |-> sentence, conf |-> 0]

reorder_clauses(sentence) ==
    IF ~HasDependentClause(sentence) THEN [text |-> sentence, conf |-> 0]
    ELSE IF ~StartsWith(Lower(sentence), <<"b","e","c","a","u","s","e">>) THEN [text |-> sentence, conf |-> 0]
    ELSE
    LET parts == SplitFirst(sentence, ",")
    IN  IF Len(parts) # 2 THEN [text |-> sentence, conf |-> 0]
        ELSE
        LET dependent == Lower(Strip(parts[1], WhiteSpace))
            stripped == Strip(parts[2], WhiteSpace)
            main == IF stripped # <<>> THEN <<ToUpper(stripped[1])>> \o Tail(stripped)
                    ELSE stripped
        IN  [text |-> main \o <<SP>> \o dependent \o <<".">>, conf |-> 70]

\* The first entry of NOMINALIZATIONS, from index k on, whose nominal occurs in
\* the lower-cased sentence decides (the loop breaks there).
RECURSIVE NominalizationFrom(_, _)
NominalizationFrom(sentence, k) ==
    IF k > Len(NOMINALIZATIONS) THEN [text |-> sentence, conf |-> 0]
    ELSE IF Contains(Lower(sentence), NOMINALIZATIONS[k].nominal)
         THEN [text |-> Replace(Replace(sentence, NOMINALIZATIONS[k].nominal,
                                        NOMINALIZATIONS[k].verbal),
                                Capitalize(NOMINALIZATIONS[k].nominal),
                                Capitalize(NOMINALIZATIONS[k].verbal)),
               conf |-> 60]
    ELSE NominalizationFrom(sentence, k + 1)

reverse_nominalization(sentence) ==
    NominalizationFrom(sentence, 1)

\* vary_sentence_complexity: a sentence of more than LongWords words ...
LongWords == 30

\* ... and one of fewer than ShortWords words
ShortWords == 8

CONNECTORS ==
    <<<<"a","n","d">>, <<"w","h","i","l","e">>, <<"a","s">>>>

\* The while loop of vary_sentence_complexity from index i (1-based) on
RECURSIVE VaryLoop(_, _, _, _)
VaryLoop(sentences, i, rng, result) ==
    IF i > Len(sentences) THEN [sentences |-> result, rng |-> rng]
    ELSE
    LET sent == sentences[i]
        words == Split(sent)
        parts == SplitFirst(sent, ",")
    IN  IF Len(words) > LongWords /\ Contains(sent, <<",">>) /\ Len(parts) = 2
        THEN VaryLoop(sentences, i + 1, rng,
                      result \o <<Strip(parts[1], WhiteSpace) \o <<".">>,
                                  Strip(parts[2], WhiteSpace)>>)
        ELSE IF /\ Len(words) < ShortWords
                /\ i + 1 <= Len(sentences)
                /\ Len(Split(sentences[i + 1])) < ShortWords
        THEN VaryLoop(sentences, i + 2, RngNext(rng),
                      Append(result,
                             RStrip(sent, {"."}) \o <<SP>> \o Choice(rng, CONNECTORS)
                                 \o <<SP>> \o Lower(sentences[i + 1])))
        ELSE VaryLoop(sentences, i + 1, rng, Append(result, sent))

vary_sentence_complexity(sentences, rng) ==
    LET r == VaryLoop(sentences, 1, rng, <<>>)
    IN  IF sentences = <<>> THEN [sentences |-> sentences, rng |-> rng, conf |-> 0]
        ELSE [sentences |-> r.sentences, rng |-> r.rng,
              conf |-> IF Len(r.sentences) # Len(sentences) THEN 50 ELSE 0]

\* if enable_voice and self.parser.is_passive_voice(sent): the active form
\* when its confidence exceeds 0.5
ApplyVoice(sent, enable_voice) ==
    IF enable_voice /\ is_passive_voice(sent) /\ passive_to_active(sent).conf > 50
    THEN passive_to_active(sent).text ELSE sent

\* if enable_clauses: the reordered form when its confidence exceeds 0.5
ApplyClauses(sent, enable_clauses) ==
    IF enable_clauses /\ reorder_clauses(sent).conf > 50
    THEN reorder_clauses(sent).text ELSE sent

\* if enable_nominalization: the verbal form when its confidence exceeds 0.5
ApplyNominalization(sent, enable_nominalization) ==
    IF enable_nominalization /\ reverse_nominalization(sent).conf > 50
    THEN reverse_nominalization(sent).text ELSE sent

\* The body of the for loop of restructure, for one sentence
RestructureSentence(sent, enable_voice, enable_clauses, enable_nominalization) ==
    ApplyNominalization(ApplyClauses(ApplyVoice(sent, enable_voice), enable_clauses),
                        enable_nominalization)

\* ' '.join(transformed_sentences), with the generator's state
Rejoin(varied) ==
    [text |-> Join(varied.sentences, <<SP>>), rng |-> varied.rng, raised |-> FALSE]

\* restructure; fault = "parse" stands for the parser raising on its first call
restructure(text, enable_voice, enable_clauses, enable_nominalization, rng, fault) ==
    IF fault = "parse" THEN [text |-> text, rng |-> rng, raised |-> TRUE]
    ELSE Rejoin(vary_sentence_complexity(
                    [k \in 1..Len(get_sentences(text)) |->
                        RestructureSentence(get_sentences(text)[k], enable_voice,
                                            enable_clauses, enable_nominalization)],
                    rng))

(***************************************************************************)
(* SemanticReplacer (src/src/core/semantic_replacer.py): the operations.    *)
(***************************************************************************)
\* wordnet.synsets(word, pos) flattened to its lemma names, in WordNet's order:
\* the stand-in for the external lexical database.
WordNetLemmas(word, pos) ==
    IF word = <<"s","i","g","n","i","f","i","c","a","n","t">> /\ pos = "a"
    THEN <<<<"s","i","g","n","i","f","i","c","a","n","t">>, <<"s","u","b","s","t","a","n","t","i","a","l">>, <<"i","m","p","o","r","t","a","n","t">>, <<"o","f","_","i","m","p","o","r","t">>>>
    ELSE IF word = <<"c","o","m","p","l","e","t","e","d">> /\ pos = "v"
    THEN <<<<"c","o","m","p","l","e","t","e">>, <<"f","i","n","i","s","h">>, <<"c","o","m","p","l","e","t","e">>>>
    ELSE <<>>

\* The process's string-hash seed (PYTHONHASHSEED, drawn afresh by every
\* interpreter unless it is set): it fixes the iteration order of a set of str.
HashSeeds ==
    {0, 1}

\* The distinct elements of seq, in order of first occurrence
RECURSIVE Dedup(_, _)
Dedup(seq, acc) ==
    IF seq = <<>> THEN acc
    ELSE Dedup(Tail(seq), IF Head(seq) \in Range(acc) THEN acc ELSE Append(acc, Head(seq)))

\* list(a_set_of_str): an order the hash seed decides
ListOfSet(inserted, hashSeed) ==
    IF hashSeed = 0 \/ Dedup(inserted, <<>>) = <<>> THEN Dedup(inserted, <<>>)
    ELSE Append(Tail(Dedup(inserted, <<>>)), Head(Dedup(inserted, <<>>)))

\* get_wordnet_synonyms
get_wordnet_synonyms(word, pos, hashSeed) ==
    LET lemmas == WordNetLemmas(word, pos)
        names == [k \in 1..Len(lemmas) |-> Replace(lemmas[k], <<"_">>, <<" ">>)]
        KeepName(k) == Lower(names[k]) # Lower(word)
    IN  ListOfSet(FilterIdx(names, {k \in 1..Len(names) : KeepName(k)}, 1), hashSeed)

\* The index of word in SYNONYM_GROUPS, 0 when it has no group
GroupIndex(word_lower) ==
    LET hits == {k \in 1..Len(SYNONYM_GROUPS) : SYNONYM_GROUPS[k].word = word_lower}
    IN  IF hits = {} THEN 0 ELSE CHOOSE k \in hits : TRUE

\* replace_with_synonym; fault = "wordnet" stands for the WordNet lookup raising
replace_with_synonym(word, pos, formality, rng, hashSeed, fault) ==
    LET word_lower == Lower(word)
        g == GroupIndex(word_lower)
        Cased(replacement) == IF IsUpper(word[1]) THEN Capitalize(replacement)
                              ELSE replacement
        synonyms == get_wordnet_synonyms(word_lower, pos, hashSeed)
    IN  IF g # 0 /\ formality \in Formalities
        THEN [text |-> Cased(Choice(rng, SYNONYM_GROUPS[g][formality])), conf |-> 90,
              rng |-> RngNext(rng), raised |-> FALSE]
        ELSE IF fault = "wordnet"
        THEN [text |-> word, conf |-> 0, rng |-> rng, raised |-> TRUE]
        ELSE IF synonyms # <<>>
        THEN [text |-> Cased(Choice(rng, synonyms)), conf |-> 60,
              rng |-> RngNext(rng), raised |-> FALSE]
        ELSE [text |-> word, conf |-> 0, rng |-> rng, raised |-> FALSE]

\* The first character of '.,;:!?' the word ends with, if any
RECURSIVE TrailingPunct(_, _)
TrailingPunct(word, k) ==
    IF k > Len(PUNCT) THEN <<>>
    ELSE IF EndsWith(word, <<PUNCT[k]>>) THEN <<PUNCT[k]>>
    ELSE TrailingPunct(word, k + 1)

\* The inner loop of replace_discourse_markers over the words, for one marker
RECURSIVE MarkerWords(_, _, _, _, _, _)
MarkerWords(words, k, entry, rng, new_words, replacements) ==
    IF k > Len(words)
    THEN [words |-> new_words, rng |-> rng, replacements |-> replacements]
    ELSE IF Lower(Strip(words[k], Punct)) = Lower(entry.marker)
    THEN LET chosen == Choice(rng, entry.alternatives)
             cased == IF IsUpper(words[k][1]) THEN Capitalize(chosen) ELSE chosen
         IN  MarkerWords(words, k + 1, entry, RngNext(rng),
                         Append(new_words, cased \o TrailingPunct(words[k], 1)),
                         replacements + 1)
    ELSE MarkerWords(words, k + 1, entry, rng, Append(new_words, words[k]), replacements)

\* The outer loop of replace_discourse_markers, from marker m on
RECURSIVE MarkerLoop(_, _, _, _)
MarkerLoop(modified, m, rng, replacements) ==
    IF m > Len(DISCOURSE_MARKERS)
    THEN [text |-> modified, rng |-> rng, replacements |-> replacements]
    ELSE IF Contains(Lower(modified), Lower(DISCOURSE_MARKERS[m].marker))
    THEN LET r == MarkerWords(Split(modified), 1, DISCOURSE_MARKERS[m], rng, <<>>,
                              replacements)
         IN  MarkerLoop(Join(r.words, <<SP>>), m + 1, r.rng, r.replacements)
    ELSE MarkerLoop(modified, m + 1, rng, replacements)

replace_discourse_markers(text, rng) ==
    MarkerLoop(text, 1, rng, 0)

\* The loop of replace_phrases, from phrase p on
RECURSIVE PhraseLoop(_, _, _, _)
PhraseLoop(modified, p, rng, replacements) ==
    IF p > Len(PHRASE_SUBSTITUTIONS)
    THEN [text |-> modified, rng |-> rng, replacements |-> replacements]
    ELSE
    LET phrase == PHRASE_SUBSTITUTIONS[p].phrase
        replacement == Choice(rng, PHRASE_SUBSTITUTIONS[p].alternatives)
    IN  IF ~Contains(Lower(modified), phrase)
        THEN PhraseLoop(modified, p + 1, rng, replacements)
        ELSE IF Contains(modified, phrase)
        THEN PhraseLoop(Replace(modified, phrase, replacement), p + 1, RngNext(rng),
                        replacements + 1)
        ELSE IF Contains(modified, Capitalize(phrase))
        THEN PhraseLoop(Replace(modified, Capitalize(phrase), Capitalize(replacement)),
                        p + 1, RngNext(rng), replacements + 1)
        ELSE PhraseLoop(modified, p + 1, RngNext(rng), replacements)

replace_phrases(text, rng) ==
    PhraseLoop(text, 1, rng, 0)

\* pos_map: spaCy's part of speech to WordNet's
PosMap(pos) ==
    IF pos = "VERB" THEN "v" ELSE IF pos = "ADJ" THEN "a" ELSE "r"

\* The token loop of replace_semantics, from token k on
RECURSIVE ContentLoop(_, _, _, _, _, _, _, _)
ContentLoop(doc, k, intensity, formality, rng, hashSeed, fault, words) ==
    IF k > Len(doc) THEN [words |-> words, rng |-> rng, raised |-> FALSE]
    ELSE IF ~(PosOf(doc[k]) \in {"VERB", "ADJ", "ADV"} /\ Len(doc[k]) > 4)
    THEN ContentLoop(doc, k + 1, intensity, formality, rng, hashSeed, fault,
                     Append(words, doc[k]))
    ELSE IF ~(RandomPct(rng) < intensity)
    THEN ContentLoop(doc, k + 1, intensity, formality, RngNext(rng), hashSeed, fault,
                     Append(words, doc[k]))
    ELSE
    LET r == replace_with_synonym(doc[k], PosMap(PosOf(doc[k])), formality,
                                  RngNext(rng), hashSeed, fault)
    IN  IF r.raised THEN [words |-> words, rng |-> r.rng, raised |-> TRUE]
        ELSE ContentLoop(doc, k + 1, intensity, formality, r.rng, hashSeed, fault,
                         Append(words, IF r.conf > 50 THEN r.text ELSE doc[k]))

\* modified.replace(' ' + punct, punct) for every punct of '.,;:!?', in order
RECURSIVE FixPunct(_, _)
FixPunct(modified, k) ==
    IF k > Len(PUNCT) THEN modified
    ELSE FixPunct(Replace(modified, <<SP, PUNCT[k]>>, <<PUNCT[k]>>), k + 1)

\* A replace_semantics that runs the token loop at every intensity: what
\* replace_semantics, with its gate at 0.3, must differ from
replace_semanticsUngated(text, intensity, formality, rng, hashSeed, fault) ==
    LET markers == replace_discourse_markers(text, rng)
        phrases == replace_phrases(markers.text, markers.rng)
        content == ContentLoop(Tokenize(phrases.text), 1, intensity, formality,
                               phrases.rng, hashSeed, fault, <<>>)
    IN  [text |-> FixPunct(Join(content.words, <<SP>>), 1), rng |-> content.rng,
         raised |-> FALSE]

\* replace_semantics; fault = "parse" stands for the parser raising, "wordnet"
\* for the WordNet lookup raising.  The generator's state is returned also
\* when the call raises: the draws made before the failure are spent.
replace_semantics(text, intensity, formality, rng, hashSeed, fault) ==
    LET markers == replace_discourse_markers(text, rng)
        phrases == replace_phrases(markers.text, markers.rng)
        content == ContentLoop(Tokenize(phrases.text), 1, intensity, formality,
                               phrases.rng, hashSeed, fault, <<>>)
    IN  IF ~(intensity > 30)
        THEN [text |-> phrases.text, rng |-> phrases.rng, raised |-> FALSE]
        ELSE IF fault = "parse"
        THEN [text |-> text, rng |-> phrases.rng, raised |-> TRUE]
        ELSE IF content.raised
        THEN [text |-> text, rng |-> content.rng, raised |-> TRUE]
        ELSE [text |-> FixPunct(Join(content.words, <<SP>>), 1), rng |-> content.rng,
              raised |-> FALSE]

(***************************************************************************)
(* The quality metrics (src/src/nlp/analyzers.py and                        *)
(* HumanizationPipeline._calculate_quality_metrics).  The embedding model   *)
(* and the readability formula are external collaborators: each is an       *)
(* arbitrary but deterministic function of its arguments, revealed one      *)
(* answer at a time and remembered (simMemo, gradeMemo).                    *)
(***************************************************************************)
\* The similarities the embedding model is let to answer, in percent
SimValues ==
    {80, 90}

\* The Flesch-Kincaid grades the readability formula is let to answer, in tenths
Grades ==
    {0, 100, 104}

\* abs(quality_metrics['readability_change']) <= 5.0
ReadabilityTolerance == 5

Abs(n) ==
    IF n < 0 THEN -n ELSE n

\* ReadabilityAnalyzer.compare, the flesch_kincaid_grade entry: percent_change is
\* (modified - original) / original * 100, or 0 when original is 0; it is kept
\* as the exact fraction num / den.
compare(orig_grade, mod_grade) ==
    [original |-> orig_grade,
     modified |-> mod_grade,
     percent_change |-> IF orig_grade # 0
                        THEN [num |-> (mod_grade - orig_grade) * 100, den |-> orig_grade]
                        ELSE [num |-> 0, den |-> 1]]

\* TextMetrics.analyze(text)['word_count']
word_count(text) ==
    Len(Split(text))

\* Metrics whose text entries are computed for the pair (original, original),
\* whatever the candidate: what calculate_quality_metrics must differ from
calculate_quality_metricsOfOriginal(original, modified, similarity, orig_grade, mod_grade) ==
    [semantic_similarity |-> similarity,
     readability_change |-> compare(orig_grade, mod_grade).percent_change,
     original_readability |-> orig_grade,
     modified_readability |-> mod_grade,
     original_word_count |-> word_count(original),
     modified_word_count |-> word_count(original),
     spaces_replaced |-> get_replacement_stats(original, original).spaces_replaced,
     space_replacement_rate |-> get_replacement_stats(original, original).replacement_rate]

\* _calculate_quality_metrics, given the collaborators' answers.  The AI-risk
\* and lexical-diversity entries, functions of the two texts alone that no
\* decision reads, are left out.
calculate_quality_metrics(original, modified, similarity, orig_grade, mod_grade) ==
    [semantic_similarity |-> similarity,
     readability_change |-> compare(orig_grade, mod_grade).percent_change,
     original_readability |-> orig_grade,
     modified_readability |-> mod_grade,
     original_word_count |-> word_count(original),
     modified_word_count |-> word_count(modified),
     spaces_replaced |-> get_replacement_stats(original, modified).spaces_replaced,
     space_replacement_rate |-> get_replacement_stats(original, modified).replacement_rate]

\* The per-stage gate: similarity >= self.quality_threshold
StageAccepts(similarity, quality_threshold) ==
    similarity >= quality_threshold

\* A final gate that checks the similarity alone: what FinalGatePasses must
\* differ from
FinalGateSimilarityOnly(metrics, quality_threshold) ==
    metrics.semantic_similarity >= quality_threshold

\* The final gate
FinalGatePasses(metrics, quality_threshold) ==
    /\ metrics.semantic_similarity >= quality_threshold
    /\ Abs(metrics.readability_change.num)
          <= ReadabilityTolerance * Abs(metrics.readability_change.den)

\* A record whose original is the working copy: what HumanizeResult must
\* differ from
HumanizeResultOfCopy(original, humanized, applied, metrics, passed) ==
    [original |-> humanized,
     humanized |-> humanized,
     transformations_applied |-> applied,
     quality_metrics |-> metrics,
     passed_quality_check |-> passed]

\* The record humanize returns after the final gate and the rollback
HumanizeResult(original, humanized, applied, metrics, passed) ==
    [original |-> original,
     humanized |-> humanized,
     transformations_applied |-> applied,
     quality_metrics |-> metrics,
     passed_quality_check |-> passed]

\* not text or not text.strip()
IsBlank(text) ==
    text = <<>> \/ Strip(text, WhiteSpace) = <<>>

\* A blank result that strips the text: what BlankResult must differ from
BlankResultStripped(text) ==
    [original |-> text,
     humanized |-> Strip(text, WhiteSpace),
     transformations_applied |-> <<>>,
     quality_metrics |-> <<>>,
     passed_quality_check |-> TRUE]

\* The record humanize returns for a blank text
BlankResult(text) ==
    [original |-> text,
     humanized |-> text,
     transformations_applied |-> <<>>,
     quality_metrics |-> <<>>,
     passed_quality_check |-> TRUE]

\* The stage names, in pipeline order
STAGES ==
    <<"syntax_restructuring", "semantic_replacement", "unicode_manipulation">>

(***************************************************************************)
(* HumanizationPipeline (src/src/core/pipeline.py) as a state machine.      *)
(* The program builds the pipelines of Pipes from one set of constructor    *)
(* arguments and calls humanize and batch_humanize on them, one call at a   *)
(* time (the code is synchronous).                                          *)
(***************************************************************************)
\* The pipeline objects the program builds
Pipes ==
    {1, 2}

\* The humanize calls the first pipeline is let to serve when the program
\* compares pipelines (the second one, the freshly built reference, serves one)
MaxCalls == 2

\* The input texts
Texts ==
    {<<>>, <<" ">>, <<"H","e","l","l","o"," ","w","o","r","l","d"," ","t","e","s","t">>,
     <<"H","o","w","e","v","e","r",","," ","w","e"," ","i","m","p","r","o","v","e"," ","s","i","g","n","i","f","i","c","a","n","t"," ","d","a","t","a","."," ","I","t"," ","w","o","r","k","s",".">>}

\* The constructor arguments; seed is <<>> for None and <<n>> for the integer n
Intensities ==
    {-10, 0, 50, 100, 150}

Thresholds ==
    {85}

Seeds ==
    {<<>>, <<42>>}

Configs ==
    [intensity : Intensities,
     enable_unicode : BOOLEAN,
     enable_syntax : BOOLEAN,
     enable_semantics : BOOLEAN,
     formality : {"formal"},
     quality_threshold : Thresholds,
     seed : Seeds]

VARIABLES
    cfg,                     \* the constructor arguments of every pipeline
    env,                     \* the collaborators: whether calls may fail, whether
                             \* the embedding model loads, what the models answer
    quota,                   \* per pipeline: the humanize calls the program makes
    hashSeed,                \* the string-hash seed of each pipeline's process
    status,                  \* per pipeline: "unbuilt", "built" or "failed"
    rng,                     \* per pipeline: the state of each engine's generator
    simMemo,                 \* the answers of the embedding model so far
    gradeMemo,               \* the answers of the readability formula so far
    pc,                      \* where the running humanize call is
    cur,                     \* the pipeline serving the running call
    input,                   \* humanize's argument text
    original_text,           \* humanize's locals
    current_text,
    transformations_applied,
    quality_metrics,
    passed_quality_check,
    warnings,                \* what the last humanize call printed
    batch,                   \* the running batch_humanize call: texts and results
    log,                     \* per pipeline: what each humanize call returned
    batchOut,                \* per pipeline: what the last batch_humanize returned
    spaceCall,               \* the last direct call of the first pipeline's
                             \* space_manipulator: arguments, result, statistics
    engineCall,              \* the last direct call of a method of the first
                             \* pipeline's syntax_restructurer or
                             \* semantic_replacer: method, arguments, result
    nlp_class,               \* the class NLPParser: _nlp_model (0 for None, else
                             \* the handle of a loaded model), what lru_cache
                             \* keeps for get_model, the spacy.load calls that
                             \* returned a model so far, and whether the model
                             \* package is on the machine (found out by the
                             \* first spacy.load)
    parser                   \* per thread that constructs an NLPParser: where
                             \* the construction is, and the self.nlp it got

vars ==
    <<cfg, env, quota, hashSeed, status, rng, simMemo, gradeMemo, pc, cur, input,
      original_text, current_text, transformations_applied, quality_metrics,
      passed_quality_check, warnings, batch, log, batchOut, spaceCall, engineCall,
      nlp_class, parser>>

\* What no step of a pipeline changes
frame ==
    <<cfg, env, quota, hashSeed, spaceCall, engineCall, nlp_class, parser>>

\* The locals the stages work on
locals ==
    <<original_text, current_text, transformations_applied>>

\* The locals of the final gate
verdict ==
    <<quality_metrics, passed_quality_check>>

NoBatch ==
    [on |-> FALSE, texts |-> <<>>, results |-> <<>>]

NoCall ==
    <<>>

\* The threads of one process that construct an NLPParser at the same time
Threads ==
    {1, 2, 3}

\* The state before any pipeline is built
Start ==
    /\ status = [p \in Pipes |-> "unbuilt"]
    /\ rng = [p \in Pipes |-> [space |-> 0, syntax |-> 0, semantic |-> 0]]
    /\ simMemo = {}
    /\ gradeMemo = {}
    /\ pc = "idle"
    /\ cur = 1
    /\ input = <<>>
    /\ original_text = <<>>
    /\ current_text = <<>>
    /\ transformations_applied = <<>>
    /\ quality_metrics = <<>>
    /\ passed_quality_check = FALSE
    /\ warnings = <<>>
    /\ batch = NoBatch
    /\ spaceCall = NoCall
    /\ engineCall = NoCall
    /\ nlp_class = [nlp_model |-> 0, cached |-> 0, loads |-> 0, package |-> "unknown"]
    /\ parser = [t \in Threads |-> [pc |-> "start", nlp |-> 0]]
    /\ log = [p \in Pipes |-> <<>>]
    /\ batchOut = [p \in Pipes |-> [called |-> FALSE, raised |-> FALSE, texts |-> <<>>,
                                    results |-> <<>>]]

\* One pipeline, one call, any collaborators: the models answer anything, calls
\* may fail
Init ==
    /\ cfg \in Configs
    /\ env \in [faults : BOOLEAN, simModel : BOOLEAN, sims : {SimValues},
                grades : {Grades}]
    /\ quota = [p \in Pipes |-> IF p = 1 THEN 1 ELSE 0]
    /\ hashSeed \in [Pipes -> HashSeeds]
    /\ hashSeed[2] = 0
    /\ Start

\* HumanizationPipeline.__init__: SpaceManipulator(intensity, seed) raises
\* ValueError for an intensity outside [0, 1]; each engine seeds a generator
\* of its own with the same seed.
Construct(p) ==
    /\ pc = "idle"
    /\ ~batch.on
    /\ status[p] = "unbuilt"
    /\ quota[p] > 0
    /\ IF ~IntensityValid(cfg.intensity)
       THEN /\ status' = [status EXCEPT ![p] = "failed"]
            /\ rng' = rng
       ELSE /\ status' = [status EXCEPT ![p] = "built"]
            /\ \E s \in RngInit(cfg.seed) :
                  rng' = [rng EXCEPT ![p] = [space |-> s, syntax |-> RngNext(s),
                                             semantic |-> RngNext(RngNext(s))]]
    /\ UNCHANGED <<frame, simMemo, gradeMemo, pc, cur, input, locals, verdict, warnings,
                   batch, log, batchOut>>

\* A similarity that is answered whether or not there is a model: what
\* SimAnswers must differ from
SimAnswersWithoutModel(text1, text2) ==
    LET known == {m \in simMemo : m.a = text1 /\ m.b = text2}
    IN  IF known # {} THEN {m.v : m \in known} ELSE env.sims

\* SemanticSimilarityChecker.calculate_similarity: 0.0 without a model, else
\* the model's answer, the same as before for the same pair
SimAnswers(text1, text2) ==
    LET known == {m \in simMemo : m.a = text1 /\ m.b = text2}
    IN  IF ~env.simModel THEN {0}
        ELSE IF known # {} THEN {m.v : m \in known}
        ELSE env.sims

SimLearn(text1, text2, v) ==
    IF env.simModel THEN simMemo \cup {[a |-> text1, b |-> text2, v |-> v]} ELSE simMemo

\* textstat.flesch_kincaid_grade(text)
GradeAnswers(text, memo) ==
    LET known == {m \in memo : m.t = text}
    IN  IF known # {} THEN {m.g : m \in known} ELSE env.grades

\* The ways a collaborator call inside a stage may fail; without a model
\* calculate_similarity returns before it calls anything
Faults ==
    IF env.faults
    THEN {"none", "parse", "wordnet"} \cup (IF env.simModel THEN {"similarity"} ELSE {})
    ELSE {"none"}

\* Collecting newest first: what Collect must differ from
CollectFirst(results, result) ==
    <<result>> \o results

\* results.append(result)
Collect(results, result) ==
    Append(results, result)

\* humanize returns (or raises): the call is logged and its locals die; a
\* running batch collects the result or is torn down by the exception
Return(entry) ==
    /\ pc' = "idle"
    /\ input' = <<>>
    /\ original_text' = <<>>
    /\ current_text' = <<>>
    /\ transformations_applied' = <<>>
    /\ quality_metrics' = <<>>
    /\ passed_quality_check' = FALSE
    /\ log' = [log EXCEPT ![cur'] = Append(@, entry)]
    /\ IF ~batch.on THEN batch' = batch /\ batchOut' = batchOut
       ELSE IF entry.raised
       THEN /\ batch' = NoBatch
            /\ batchOut' = [batchOut EXCEPT ![cur'] =
                               [called |-> TRUE, raised |-> TRUE, texts |-> batch.texts,
                                results |-> <<>>]]
       ELSE /\ batch' = [batch EXCEPT !.results = Collect(@, entry.result)]
            /\ batchOut' = batchOut

\* The entry of humanize(text) on pipeline p: a blank text returns at once
Enter(p, text) ==
    /\ cur' = p
    /\ warnings' = <<>>
    /\ IF IsBlank(text)
       THEN Return([text |-> text, raised |-> FALSE, result |-> BlankResult(text)])
       ELSE /\ pc' = "syntax"
            /\ input' = text
            /\ original_text' = text
            /\ current_text' = text
            /\ transformations_applied' = <<>>
            /\ UNCHANGED <<verdict, batch, log, batchOut>>
    /\ UNCHANGED <<frame, status, rng, simMemo, gradeMemo>>

\* A call of pipeline.humanize(text)
Humanize(p, text) ==
    /\ pc = "idle"
    /\ ~batch.on
    /\ status[p] = "built"
    /\ Len(log[p]) < quota[p]
    /\ Enter(p, text)

\* Scoring against the intermediate text: what Reference must differ from
ReferenceCurrent(original, current) ==
    current

\* The text a stage's candidate is scored against
Reference(original, current) ==
    original

\* An acceptance that puts the name first: what Accepted must differ from
AcceptedPrepends(candidate, applied, name) ==
    [current_text |-> candidate, applied |-> <<name>> \o applied]

\* if similarity >= self.quality_threshold: the candidate becomes the current
\* text and the stage's name is appended
Accepted(candidate, applied, name) ==
    [current_text |-> candidate, applied |-> Append(applied, name)]

\* else: print("Warning: ... rejected (similarity: ...)")
Rejected(current, applied) ==
    [current_text |-> current, applied |-> applied]

\* A failure that loses the stages applied so far: what Failed must differ from
FailedClears(current, applied) ==
    [current_text |-> current, applied |-> <<>>]

\* except Exception: print("Warning: ... failed: ...")
Failed(current, applied) ==
    [current_text |-> current, applied |-> applied]

\* A gated stage (Syntax, Lexical): r is what the transform returned, with the
\* generator's state after it; the candidate is scored against the original.
GatedStage(name, engine, r, fault, next) ==
    /\ rng' = [rng EXCEPT ![cur][engine] = r.rng]
    /\ pc' = next
    /\ original_text' = original_text
    /\ IF r.raised \/ fault = "similarity"
       THEN /\ current_text' = Failed(current_text, transformations_applied).current_text
            /\ transformations_applied' =
                   Failed(current_text, transformations_applied).applied
            /\ warnings' = Append(warnings, [stage |-> name, kind |-> "failed"])
            /\ simMemo' = simMemo
       ELSE \E similarity \in SimAnswers(Reference(original_text, current_text), r.text) :
               LET out == IF StageAccepts(similarity, cfg.quality_threshold)
                          THEN Accepted(r.text, transformations_applied, name)
                          ELSE Rejected(current_text, transformations_applied)
               IN  /\ simMemo' = SimLearn(Reference(original_text, current_text), r.text,
                                          similarity)
                   /\ current_text' = out.current_text
                   /\ transformations_applied' = out.applied
                   /\ warnings' = IF StageAccepts(similarity, cfg.quality_threshold)
                                  THEN warnings
                                  ELSE Append(warnings,
                                              [stage |-> name, kind |-> "rejected",
                                               similarity |-> similarity])
    /\ UNCHANGED <<frame, status, gradeMemo, cur, input, verdict, batch, log, batchOut>>

StageSkipped(here, next) ==
    /\ pc = here
    /\ pc' = next
    /\ UNCHANGED <<frame, status, rng, simMemo, gradeMemo, cur, input, locals, verdict,
                   warnings, batch, log, batchOut>>

\* Step 1: Syntax Restructuring
SyntaxDisabled ==
    /\ ~cfg.enable_syntax
    /\ StageSkipped("syntax", "semantic")

\* What restructure returns for the current text
SyntaxCandidate(fault) ==
    restructure(current_text, TRUE, TRUE, TRUE, rng[cur].syntax, fault)

SyntaxStage ==
    /\ pc = "syntax"
    /\ cfg.enable_syntax
    /\ \E fault \in Faults :
          GatedStage(STAGES[1], "syntax", SyntaxCandidate(fault), fault, "semantic")

\* Step 2: Semantic Replacement
SemanticDisabled ==
    /\ ~cfg.enable_semantics
    /\ StageSkipped("semantic", "unicode")

\* What replace_semantics returns for the current text
SemanticCandidate(fault) ==
    replace_semantics(current_text, cfg.intensity, cfg.formality, rng[cur].semantic,
                      hashSeed[cur], fault)

SemanticStage ==
    /\ pc = "semantic"
    /\ cfg.enable_semantics
    /\ \E fault \in Faults :
          GatedStage(STAGES[2], "semantic", SemanticCandidate(fault), fault, "unicode")

\* Step 3: Unicode Space Manipulation
UnicodeDisabled ==
    /\ ~cfg.enable_unicode
    /\ StageSkipped("unicode", "final")

\* What replace_spaces returns for the current text
UnicodeCandidate ==
    replace_spaces(current_text, TRUE, cfg.intensity, rng[cur].space)

\* A Space stage that records nothing: what UnicodeOutcome must differ from
UnicodeOutcomeUnrecorded(unicode_text, applied) ==
    [current_text |-> unicode_text, applied |-> applied]

\* What the Space stage does to (current_text, transformations_applied), given
\* what replace_spaces returned
UnicodeOutcome(unicode_text, applied) ==
    [current_text |-> unicode_text, applied |-> Append(applied, STAGES[3])]

UnicodeStage ==
    /\ pc = "unicode"
    /\ cfg.enable_unicode
    /\ rng' = [rng EXCEPT ![cur].space = UnicodeCandidate.rng]
    /\ current_text' =
           UnicodeOutcome(UnicodeCandidate.text, transformations_applied).current_text
    /\ transformations_applied' =
           UnicodeOutcome(UnicodeCandidate.text, transformations_applied).applied
    /\ pc' = "final"
    /\ UNCHANGED <<frame, status, simMemo, gradeMemo, cur, input, original_text, verdict,
                   warnings, batch, log, batchOut>>

\* The final metrics and the final quality check
FinalGate ==
    /\ pc = "final"
    /\ \E similarity \in SimAnswers(original_text, current_text),
          orig_grade \in GradeAnswers(original_text, gradeMemo) :
          \E mod_grade \in GradeAnswers(current_text,
                                        gradeMemo \cup {[t |-> original_text, g |-> orig_grade]}) :
             /\ simMemo' = SimLearn(original_text, current_text, similarity)
             /\ gradeMemo' = gradeMemo \cup {[t |-> original_text, g |-> orig_grade],
                                             [t |-> current_text, g |-> mod_grade]}
             /\ quality_metrics' =
                    calculate_quality_metrics(original_text, current_text, similarity,
                                              orig_grade, mod_grade)
             /\ passed_quality_check' =
                    FinalGatePasses(quality_metrics', cfg.quality_threshold)
             /\ pc' = IF passed_quality_check' THEN "return" ELSE "rollback"
    /\ UNCHANGED <<frame, status, rng, cur, input, locals, warnings, batch, log, batchOut>>

\* A rollback that clears the list but keeps the candidate: what RolledBack
\* must differ from
RolledBackKeepsCandidate(original, current, applied) ==
    [current_text |-> current, applied |-> <<>>]

\* current_text = original_text; transformations_applied = []
RolledBack(original, current, applied) ==
    [current_text |-> original, applied |-> <<>>]

\* Rollback if quality check failed
Rollback ==
    /\ pc = "rollback"
    /\ pc' = "return"
    /\ current_text' =
           RolledBack(original_text, current_text, transformations_applied).current_text
    /\ transformations_applied' =
           RolledBack(original_text, current_text, transformations_applied).applied
    /\ warnings' = Append(warnings, [stage |-> "final", kind |-> "rejected"])
    /\ UNCHANGED <<frame, status, rng, simMemo, gradeMemo, cur, input, original_text,
                   verdict, batch, log, batchOut>>

\* return {...}
ReturnResult ==
    /\ pc = "return"
    /\ cur' = cur
    /\ Return([text |-> input, raised |-> FALSE,
               result |-> HumanizeResult(original_text, current_text,
                                         transformations_applied, quality_metrics,
                                         passed_quality_check)])
    /\ UNCHANGED <<frame, status, rng, simMemo, gradeMemo, warnings>>

\* A collaborator raises inside _calculate_quality_metrics: nothing catches it,
\* humanize raises
FinalRaises ==
    /\ pc = "final"
    /\ env.faults
    /\ cur' = cur
    /\ Return([text |-> input, raised |-> TRUE, result |-> <<>>])
    /\ UNCHANGED <<frame, status, rng, simMemo, gradeMemo, warnings>>

\* A call of pipeline.batch_humanize(texts); the program makes one per pipeline
BatchHumanize(p, texts) ==
    /\ pc = "idle"
    /\ ~batch.on
    /\ status[p] = "built"
    /\ ~batchOut[p].called
    /\ Len(log[p]) + Len(texts) <= quota[p]
    /\ batch' = [on |-> TRUE, texts |-> texts, results |-> <<>>]
    /\ cur' = p
    /\ UNCHANGED <<frame, status, rng, simMemo, gradeMemo, pc, input, locals, verdict,
                   warnings, log, batchOut>>

\* for text in iterator: result = self.humanize(text)
BatchNext ==
    /\ pc = "idle"
    /\ batch.on
    /\ Len(batch.results) < Len(batch.texts)
    /\ Enter(cur, batch.texts[Len(batch.results) + 1])

\* return results
BatchReturn ==
    /\ pc = "idle"
    /\ batch.on
    /\ Len(batch.results) = Len(batch.texts)
    /\ batch' = NoBatch
    /\ batchOut' = [batchOut EXCEPT ![cur] =
                       [called |-> TRUE, raised |-> FALSE, texts |-> batch.texts,
                        results |-> batch.results]]
    /\ UNCHANGED <<frame, status, rng, simMemo, gradeMemo, pc, cur, input, locals, verdict,
                   warnings, log>>

\* The lists of texts a batch is called with
Batches ==
    UNION {[1..n -> Texts] : n \in 0..MaxCalls}

Next ==
    \/ \E p \in Pipes : Construct(p)
    \/ \E p \in Pipes, text \in Texts : Humanize(p, text)
    \/ \E p \in Pipes, texts \in Batches : BatchHumanize(p, texts)
    \/ BatchNext
    \/ BatchReturn
    \/ SyntaxDisabled
    \/ SyntaxStage
    \/ SemanticDisabled
    \/ SemanticStage
    \/ UnicodeDisabled
    \/ UnicodeStage
    \/ FinalGate
    \/ Rollback
    \/ ReturnResult
    \/ FinalRaises

Spec ==
    Init /\ [][Next]_vars

\* Two pipelines built from the same arguments and the same integer seed: the
\* first serves a batch of up to MaxCalls texts, the second, the freshly built
\* reference, one humanize call; the collaborators never fail and the models,
\* when the embedding model loads, accept every candidate
InitPair ==
    /\ cfg \in {c \in Configs : c.seed # NoSeed}
    /\ env \in [faults : {FALSE}, simModel : BOOLEAN, sims : {{90}}, grades : {{100}}]
    /\ quota = [p \in Pipes |-> IF p = 1 THEN MaxCalls ELSE 1]
    /\ hashSeed \in [Pipes -> HashSeeds]
    /\ hashSeed[1] = 0
    /\ Start

NextPair ==
    \/ \E p \in Pipes : Construct(p)
    \/ \E text \in Texts : Humanize(2, text)
    \/ \E texts \in Batches : BatchHumanize(1, texts)
    \/ BatchNext
    \/ BatchReturn
    \/ SyntaxDisabled
    \/ SyntaxStage
    \/ SemanticDisabled
    \/ SemanticStage
    \/ UnicodeDisabled
    \/ UnicodeStage
    \/ FinalGate
    \/ Rollback
    \/ ReturnResult

SpecPair ==
    InitPair /\ [][NextPair]_vars

\* Quality thresholds outside [0, 1]
OutOfRange ==
    {-10, 150}

\* One pipeline built with any quality threshold, full or out-of-range
\* intensity, an integer seed and its stages all enabled or all disabled serves
\* one batch of up to MaxCalls texts; calls may fail, the models answer the
\* same to every question
BatchConfigs ==
    {c \in [intensity : {100, 150},
            enable_unicode : BOOLEAN,
            enable_syntax : BOOLEAN,
            enable_semantics : BOOLEAN,
            formality : {"formal"},
            quality_threshold : Thresholds \cup OutOfRange,
            seed : Seeds \ {NoSeed}] :
        /\ c.enable_unicode = c.enable_syntax
        /\ c.enable_syntax = c.enable_semantics}

InitBatch ==
    /\ cfg \in BatchConfigs
    /\ env \in [faults : {TRUE}, simModel : {TRUE}, sims : {{90}}, grades : {{100}}]
    /\ quota = [p \in Pipes |-> IF p = 1 THEN MaxCalls ELSE 0]
    /\ hashSeed = [p \in Pipes |-> 0]
    /\ Start

NextBatch ==
    \/ Construct(1)
    \/ \E texts \in Batches : BatchHumanize(1, texts)
    \/ BatchNext
    \/ BatchReturn
    \/ SyntaxDisabled
    \/ SyntaxStage
    \/ SemanticDisabled
    \/ SemanticStage
    \/ UnicodeDisabled
    \/ UnicodeStage
    \/ FinalGate
    \/ Rollback
    \/ ReturnResult
    \/ FinalRaises

SpecBatch ==
    InitBatch /\ [][NextBatch]_vars

(***************************************************************************)
(* The SpaceManipulator of a pipeline called directly.                      *)
(***************************************************************************)
\* The texts replace_spaces is called with: empty, without spaces, with inner
\* spaces, with spaces at the ends and next to line breaks, with a no-break
\* space already in it
SpaceTexts ==
    {<<>>, <<"a","b">>, <<" ">>, <<"H","e","l","l","o"," ","w","o","r","l","d"," ","t","e","s","t">>, <<" ","a"," ","b"," ">>, <<"a"," ","\n"," ","b"," ","c">>,
     <<"a">> \o <<"U+00A0">> \o <<"b"," ","c">>}

\* modified = manipulator.replace_spaces(text, preserve_boundaries), then
\* manipulator.get_replacement_stats(text, modified)
ReplaceSpaces(text, preserve_boundaries) ==
    /\ pc = "idle"
    /\ ~batch.on
    /\ status[1] = "built"
    /\ LET r == replace_spaces(text, preserve_boundaries, cfg.intensity, rng[1].space)
       IN  /\ rng' = [rng EXCEPT ![1].space = r.rng]
           /\ spaceCall' = [text |-> text,
                            preserve_boundaries |-> preserve_boundaries,
                            modified |-> r.text,
                            stats |-> get_replacement_stats(text, r.text)]
    /\ UNCHANGED <<cfg, env, quota, hashSeed, status, simMemo, gradeMemo, pc, cur, input,
                   locals, verdict, warnings, batch, log, batchOut, engineCall,
                   nlp_class, parser>>

\* One pipeline of any intensity and seed, built for its space_manipulator
InitSpace ==
    /\ cfg \in {c \in Configs : c.enable_unicode /\ c.enable_syntax /\ c.enable_semantics}
    /\ env = [faults |-> FALSE, simModel |-> FALSE, sims |-> {90}, grades |-> {100}]
    /\ quota = [p \in Pipes |-> IF p = 1 THEN 1 ELSE 0]
    /\ hashSeed = [p \in Pipes |-> 0]
    /\ Start

NextSpace ==
    \/ Construct(1)
    \/ \E text \in SpaceTexts, preserve_boundaries \in BOOLEAN :
          ReplaceSpaces(text, preserve_boundaries)

SpecSpace ==
    InitSpace /\ [][NextSpace]_vars

(***************************************************************************)
(* humanize on texts of several lines.                                      *)
(***************************************************************************)
\* Texts with a line break between two sentences and inside a sentence
LineTexts ==
    {<<"H","e","l","l","o"," ","w","o","r","l","d",".","\n","I","t"," ","w","o","r","k","s",".">>, <<"H","o","w","e","v","e","r",","," ","w","e","\n","i","m","p","r","o","v","e"," ","d","a","t","a",".">>}

\* One pipeline, one call with preserve_formatting left at its default; no
\* call fails, the embedding model answers anything
InitLines ==
    /\ cfg \in Configs
    /\ env \in [faults : {FALSE}, simModel : {TRUE}, sims : {SimValues}, grades : {{100}}]
    /\ quota = [p \in Pipes |-> IF p = 1 THEN 1 ELSE 0]
    /\ hashSeed = [p \in Pipes |-> 0]
    /\ Start

NextLines ==
    \/ Construct(1)
    \/ \E text \in LineTexts : Humanize(1, text)
    \/ SyntaxDisabled
    \/ SyntaxStage
    \/ SemanticDisabled
    \/ SemanticStage
    \/ UnicodeDisabled
    \/ UnicodeStage
    \/ FinalGate
    \/ Rollback
    \/ ReturnResult

SpecLines ==
    InitLines /\ [][NextLines]_vars

(***************************************************************************)
(* The methods of the syntax_restructurer and the semantic_replacer of the  *)
(* first pipeline, called directly.                                         *)
(***************************************************************************)
\* What the engine steps leave alone
engineFrame ==
    <<cfg, env, quota, hashSeed, status, simMemo, gradeMemo, pc, cur, input, locals,
      verdict, warnings, batch, log, batchOut, spaceCall, nlp_class, parser>>

\* Whether the while loop of a direct vary_sentence_complexity call is running
VaryRunning ==
    /\ engineCall # NoCall
    /\ engineCall.method = "vary_sentence_complexity"
    /\ ~engineCall.result.returned

\* The program makes one direct call, on the built first pipeline
EngineReady ==
    /\ pc = "idle"
    /\ ~batch.on
    /\ status[1] = "built"
    /\ engineCall = NoCall

\* Sentences: passive with an agent, passive without agent, passive without
\* subject, a by-phrase without object, active
PassiveSentences ==
    {<<"T","h","e"," ","r","e","p","o","r","t"," ","w","a","s"," ","c","o","m","p","l","e","t","e","d"," ","b","y"," ","t","h","e"," ","t","e","a","m",".">>, <<"T","h","e"," ","r","e","p","o","r","t"," ","w","a","s"," ","c","o","m","p","l","e","t","e","d",".">>,
     <<"W","a","s"," ","c","o","m","p","l","e","t","e","d"," ","b","y"," ","t","h","e"," ","t","e","a","m",".">>, <<"T","h","e"," ","p","l","a","n"," ","w","a","s"," ","d","e","s","i","g","n","e","d"," ","b","y",".">>, <<"I","t"," ","w","o","r","k","s",".">>}

\* restructurer.passive_to_active(sentence)
PassiveToActive(sentence) ==
    /\ EngineReady
    /\ engineCall' = [method |-> "passive_to_active", arg |-> sentence, intensity |-> 0,
                      rng |-> rng[1].syntax, result |-> passive_to_active(sentence)]
    /\ UNCHANGED <<engineFrame, rng>>

\* Lists of sentences: none; two short ones, the second with capitals inside;
\* three short ones; a sentence of more than 30 words with commas before two
\* short ones; a sentence of more than 30 words without comma; a short
\* sentence before one of 8 words
SentenceLists ==
    {<<>>,
     <<<<"H","e","l","l","o"," ","w","o","r","l","d",".">>, <<"I","t"," ","W","o","r","k","s"," ","i","n"," ","P","a","r","i","s",".">>>>,
     <<<<"H","e","l","l","o"," ","w","o","r","l","d",".">>, <<"I","t"," ","w","o","r","k","s",".">>, <<"W","e"," ","i","m","p","r","o","v","e"," ","d","a","t","a",".">>>>,
     <<<<"W","e"," ","a","g","r","e","e",","," ","s","o"," ","s","o"," ","s","o"," ","s","o"," ","s","o"," ","s","o"," ","s","o"," ","s","o"," ","s","o"," ","s","o"," ","s","o"," ","s","o"," ","s","o"," ","s","o"," ","s","o"," ","s","o"," ","s","o"," ","s","o"," ","s","o"," ","s","o"," ","s","o"," ","s","o"," ","s","o"," ","s","o"," ","s","o"," ","s","o"," ","s","o"," ","s","o"," ","i","t"," ","w","o","r","k","s",".">>,
       <<"H","e","l","l","o"," ","w","o","r","l","d",".">>, <<"I","t"," ","w","o","r","k","s",".">>>>,
     <<<<"W","e"," ","a","g","r","e","e"," ","s","o"," ","s","o"," ","s","o"," ","s","o"," ","s","o"," ","s","o"," ","s","o"," ","s","o"," ","s","o"," ","s","o"," ","s","o"," ","s","o"," ","s","o"," ","s","o"," ","s","o"," ","s","o"," ","s","o"," ","s","o"," ","s","o"," ","s","o"," ","s","o"," ","s","o"," ","s","o"," ","s","o"," ","s","o"," ","s","o"," ","s","o"," ","s","o"," ","i","t"," ","w","o","r","k","s",".">>>>,
     <<<<"I","t"," ","w","o","r","k","s",".">>, <<"W","e"," ","i","m","p","r","o","v","e"," ","t","h","e"," ","d","a","t","a"," ","o","f"," ","t","h","e"," ","t","e","a","m"," ","q","u","i","c","k","l","y",".">>>>}

\* restructurer.vary_sentence_complexity(sentences) up to the while loop: an
\* empty list is returned at once
VaryCall(sentences) ==
    /\ EngineReady
    /\ engineCall' = [method |-> "vary_sentence_complexity", arg |-> sentences,
                      intensity |-> 0, rng |-> rng[1].syntax,
                      result |-> [sentences |-> <<>>, conf |-> 0, i |-> 0, splits |-> 0,
                                  merges |-> 0, returned |-> sentences = <<>>]]
    /\ UNCHANGED <<engineFrame, rng>>

\* What the loop reads of a sentence, computed once for every sentence of the
\* lists: len(sent.split()), ',' in sent, sent.split(',', 1),
\* sent.rstrip('.'), sent.lower()
Read ==
    [sent \in UNION {Range(sentences) : sentences \in SentenceLists} |->
        [words |-> Len(Split(sent)),
         comma |-> Contains(sent, <<",">>),
         parts |-> SplitFirst(sent, ","),
         rstripped |-> RStrip(sent, {"."}),
         lower |-> Lower(sent)]]

\* sent = sentences[i] and next_sent = sentences[i + 1] of the running loop
VarySent ==
    engineCall.arg[engineCall.result.i + 1]

VaryNext ==
    engineCall.arg[engineCall.result.i + 2]

\* An iteration that, having combined two short sentences, moves on by one
\* sentence only, so that the second is examined again: what VaryIteration
\* must differ from
VaryIterationRescans ==
    /\ VaryRunning
    /\ engineCall.result.i < Len(engineCall.arg)
    /\ IF /\ Read[VarySent].words < ShortWords
          /\ engineCall.result.i + 1 < Len(engineCall.arg)
          /\ Read[VaryNext].words < ShortWords
       THEN /\ engineCall' =
                  [engineCall EXCEPT
                     !.result.sentences =
                        Append(@, Read[VarySent].rstripped \o <<SP>>
                                      \o Choice(rng[1].syntax, CONNECTORS) \o <<SP>>
                                      \o Read[VaryNext].lower),
                     !.result.i = @ + 1,
                     !.result.merges = @ + 1]
            /\ rng' = [rng EXCEPT ![1].syntax = RngNext(@)]
       ELSE /\ engineCall' = [engineCall EXCEPT !.result.sentences = Append(@, VarySent),
                                                !.result.i = @ + 1]
            /\ rng' = rng
    /\ UNCHANGED engineFrame

\* One iteration of the while loop: a long sentence with a comma is split at
\* its first comma, two short sentences are combined, any other sentence is
\* kept; splits and merges count the branches taken
VaryIteration ==
    /\ VaryRunning
    /\ engineCall.result.i < Len(engineCall.arg)
    /\ IF /\ Read[VarySent].words > LongWords
          /\ Read[VarySent].comma
          /\ Len(Read[VarySent].parts) = 2
       THEN /\ engineCall' =
                  [engineCall EXCEPT
                     !.result.sentences =
                        @ \o <<Strip(Read[VarySent].parts[1], WhiteSpace) \o <<".">>,
                                Strip(Read[VarySent].parts[2], WhiteSpace)>>,
                     !.result.i = @ + 1,
                     !.result.splits = @ + 1]
            /\ rng' = rng
       ELSE IF /\ Read[VarySent].words < ShortWords
               /\ engineCall.result.i + 1 < Len(engineCall.arg)
               /\ Read[VaryNext].words < ShortWords
       THEN /\ engineCall' =
                  [engineCall EXCEPT
                     !.result.sentences =
                        Append(@, Read[VarySent].rstripped \o <<SP>>
                                      \o Choice(rng[1].syntax, CONNECTORS) \o <<SP>>
                                      \o Read[VaryNext].lower),
                     !.result.i = @ + 2,
                     !.result.merges = @ + 1]
            /\ rng' = [rng EXCEPT ![1].syntax = RngNext(@)]
       ELSE /\ engineCall' = [engineCall EXCEPT !.result.sentences = Append(@, VarySent),
                                                !.result.i = @ + 1]
            /\ rng' = rng
    /\ UNCHANGED engineFrame

\* The loop is left: confidence 0.5 when the number of sentences changed
VaryReturn ==
    /\ VaryRunning
    /\ engineCall.result.i >= Len(engineCall.arg)
    /\ engineCall' =
          [engineCall EXCEPT
             !.result.conf = IF Len(engineCall.result.sentences) # Len(engineCall.arg)
                             THEN 50 ELSE 0,
             !.result.returned = TRUE]
    /\ UNCHANGED <<engineFrame, rng>>

\* Texts with discourse markers: capitalised before a comma, lower-case
\* before an ellipsis, two markers, none
MarkerTexts ==
    {<<"H","o","w","e","v","e","r",","," ","w","e"," ","a","g","r","e","e",".">>, <<"W","e"," ","a","g","r","e","e",";"," ","h","o","w","e","v","e","r",".",".","."," ","i","t"," ","w","o","r","k","s",".">>,
     <<"T","h","e","r","e","f","o","r","e"," ","w","e"," ","a","g","r","e","e",","," ","h","o","w","e","v","e","r",".">>, <<"I","t"," ","w","o","r","k","s",".">>}

\* replacer.replace_discourse_markers(text)
ReplaceDiscourseMarkers(text) ==
    /\ EngineReady
    /\ engineCall' = [method |-> "replace_discourse_markers", arg |-> text,
                      intensity |-> 0, rng |-> rng[1].semantic,
                      result |-> [text |-> replace_discourse_markers(text, rng[1].semantic).text,
                                  replacements |->
                                      replace_discourse_markers(text, rng[1].semantic).replacements]]
    /\ rng' = [rng EXCEPT ![1].semantic = replace_discourse_markers(text, @).rng]
    /\ UNCHANGED engineFrame

\* Texts with a wordy phrase: in lower case, capitalised and in lower case,
\* capitalised, absent
PhraseTexts ==
    {<<"W","e"," ","w","o","r","k"," ","i","n"," ","o","r","d","e","r"," ","t","o"," ","l","e","a","r","n",".">>, <<"I","n"," ","o","r","d","e","r"," ","t","o"," ","l","e","a","r","n"," ","w","e"," ","w","o","r","k"," ","i","n"," ","o","r","d","e","r"," ","t","o"," ","w","i","n",".">>,
     <<"I","n"," ","o","r","d","e","r"," ","t","o"," ","w","i","n"," ","w","e"," ","t","r","y",".">>, <<"I","t"," ","w","o","r","k","s",".">>}

\* replacer.replace_phrases(text)
ReplacePhrases(text) ==
    /\ EngineReady
    /\ engineCall' = [method |-> "replace_phrases", arg |-> text, intensity |-> 0,
                      rng |-> rng[1].semantic,
                      result |-> [text |-> replace_phrases(text, rng[1].semantic).text,
                                  replacements |->
                                      replace_phrases(text, rng[1].semantic).replacements]]
    /\ rng' = [rng EXCEPT ![1].semantic = replace_phrases(text, @).rng]
    /\ UNCHANGED engineFrame

\* Texts with one verb that has curated synonyms, alone and after a marker,
\* with content words that have no synonym, and without content word
SemanticTexts ==
    {<<"W","e"," ","i","m","p","r","o","v","e"," ","d","a","t","a",".">>, <<"H","o","w","e","v","e","r",","," ","w","e"," ","i","m","p","r","o","v","e"," ","d","a","t","a",".">>, <<"I","t"," ","w","o","r","k","s"," ","q","u","i","c","k","l","y",".">>,
     <<"H","e","l","l","o"," ","w","o","r","l","d",".">>}

\* The intensity argument of replace_semantics: 0.0, the gate's 0.3, 0.5, 1.0
EngineIntensities ==
    {0, 30, 50, 100}

\* replacer.replace_semantics(text, intensity)
ReplaceSemantics(text, intensity) ==
    /\ EngineReady
    /\ engineCall' =
          [method |-> "replace_semantics", arg |-> text, intensity |-> intensity,
           rng |-> rng[1].semantic,
           result |-> [text |-> replace_semantics(text, intensity, cfg.formality,
                                                  rng[1].semantic, hashSeed[1], "none").text,
                       rng |-> replace_semantics(text, intensity, cfg.formality,
                                                 rng[1].semantic, hashSeed[1], "none").rng]]
    /\ rng' = [rng EXCEPT ![1].semantic =
                  replace_semantics(text, intensity, cfg.formality, @, hashSeed[1],
                                    "none").rng]
    /\ UNCHANGED engineFrame

\* One pipeline with every stage enabled, built for its engines
InitEngine ==
    /\ cfg \in {c \in Configs : /\ c.enable_unicode /\ c.enable_syntax /\ c.enable_semantics
                                /\ c.intensity = 50}
    /\ env = [faults |-> FALSE, simModel |-> FALSE, sims |-> {90}, grades |-> {100}]
    /\ quota = [p \in Pipes |-> IF p = 1 THEN 1 ELSE 0]
    /\ hashSeed \in [Pipes -> HashSeeds]
    /\ hashSeed[2] = 0
    /\ Start

NextEngine ==
    \/ Construct(1)
    \/ \E sentence \in PassiveSentences : PassiveToActive(sentence)
    \/ \E sentences \in SentenceLists : VaryCall(sentences)
    \/ VaryIteration
    \/ VaryReturn
    \/ \E text \in MarkerTexts : ReplaceDiscourseMarkers(text)
    \/ \E text \in PhraseTexts : ReplacePhrases(text)
    \/ \E text \in SemanticTexts, intensity \in EngineIntensities :
          ReplaceSemantics(text, intensity)

SpecEngine ==
    InitEngine /\ [][NextEngine]_vars

(***************************************************************************)
(* NLPParser() constructed by several threads of one process                *)
(* (src/src/nlp/parsers.py).  get_model is not synchronised: its steps      *)
(* interleave.                                                              *)
(***************************************************************************)
\* What the steps of a construction leave alone
parserFrame ==
    <<cfg, env, quota, hashSeed, status, rng, simMemo, gradeMemo, pc, cur, input, locals,
      verdict, warnings, batch, log, batchOut, spaceCall, engineCall>>

\* self.nlp = self.get_model(model_name): the lru_cache wrapper answers from
\* its cache when it holds a result, else the body of get_model is entered
GetModel(t) ==
    /\ parser[t].pc = "start"
    /\ IF nlp_class.cached # 0
       THEN parser' = [parser EXCEPT ![t] = [pc |-> "done", nlp |-> nlp_class.cached]]
       ELSE parser' = [parser EXCEPT ![t].pc = "check"]
    /\ UNCHANGED <<parserFrame, nlp_class>>

\* if cls._nlp_model is None
CheckModel(t) ==
    /\ parser[t].pc = "check"
    /\ parser' = [parser EXCEPT ![t].pc = IF nlp_class.nlp_model = 0 THEN "load"
                                          ELSE "return"]
    /\ UNCHANGED <<parserFrame, nlp_class>>

\* cls._nlp_model = spacy.load(model_name), in the try and after the download:
\* a new model object when the package is on the machine, else OSError, which
\* the try catches and the second load raises to the caller
LoadModel(t) ==
    /\ parser[t].pc \in {"load", "reload"}
    /\ \E found \in IF nlp_class.package = "unknown" THEN BOOLEAN
                     ELSE {nlp_class.package = "installed"} :
          IF found
          THEN /\ nlp_class' = [nlp_class EXCEPT !.nlp_model = nlp_class.loads + 1,
                                                 !.loads = @ + 1,
                                                 !.package = "installed"]
               /\ parser' = [parser EXCEPT ![t].pc = "return"]
          ELSE /\ nlp_class' = [nlp_class EXCEPT !.package = "missing"]
               /\ parser' = [parser EXCEPT ![t].pc = IF parser[t].pc = "load"
                                                     THEN "download" ELSE "raised"]
    /\ UNCHANGED parserFrame

\* subprocess.run(["python", "-m", "spacy", "download", model_name]): the
\* package is installed, or the download fails and it stays missing
DownloadModel(t) ==
    /\ parser[t].pc = "download"
    /\ \E installed \in BOOLEAN :
          nlp_class' = [nlp_class EXCEPT !.package = IF installed THEN "installed" ELSE @]
    /\ parser' = [parser EXCEPT ![t].pc = "reload"]
    /\ UNCHANGED parserFrame

\* return cls._nlp_model: the class attribute as it is now; lru_cache keeps
\* the result unless another call has stored one meanwhile
ReturnModel(t) ==
    /\ parser[t].pc = "return"
    /\ parser' = [parser EXCEPT ![t] = [pc |-> "done", nlp |-> nlp_class.nlp_model]]
    /\ nlp_class' = [nlp_class EXCEPT !.cached = IF @ = 0 THEN nlp_class.nlp_model ELSE @]
    /\ UNCHANGED parserFrame

\* No pipeline is used: the threads only construct parsers
InitParsers ==
    /\ cfg \in {c \in Configs : /\ c.enable_unicode /\ c.enable_syntax /\ c.enable_semantics
                                /\ c.intensity = 50 /\ c.seed = NoSeed}
    /\ env = [faults |-> FALSE, simModel |-> FALSE, sims |-> {90}, grades |-> {100}]
    /\ quota = [p \in Pipes |-> 0]
    /\ hashSeed = [p \in Pipes |-> 0]
    /\ Start

NextParsers ==
    \E t \in Threads :
        \/ GetModel(t)
        \/ CheckModel(t)
        \/ LoadModel(t)
        \/ DownloadModel(t)
        \/ ReturnModel(t)

SpecParsers ==
    InitParsers /\ [][NextParsers]_vars

\* The loop of vary_sentence_complexity is one thread of control: an iteration
\* that can run does run, and the return follows the last iteration
SpecEngineFair ==
    SpecEngine /\ WF_vars(VaryIteration) /\ WF_vars(VaryReturn)

(***************************************************************************)
(* The properties of humanize.                                              *)
(***************************************************************************)
\* What the humanize calls that returned a result for a non-blank text logged
Returned ==
    {e \in UNION {Range(log[p]) : p \in Pipes} : ~e.raised /\ ~IsBlank(e.text)}

\* What the last humanize call printed about a stage
Warned(name, kind) ==
    \E k \in 1..Len(warnings) : warnings[k].stage = name /\ warnings[k].kind = kind

\* C1: whenever humanize returns for a non-blank text with
\* passed_quality_check false, the humanized text it returns is the input
\* text and transformations_applied is empty.
C1_RollbackGuarantee ==
    \A e \in Returned :
        ~e.result.passed_quality_check
            => /\ e.result.humanized = e.text
               /\ e.result.transformations_applied = <<>>

\* A call whose Syntax stage was accepted and whose candidate had spaces
\* replaced failed the final gate and returned
C1_Witness ==
    /\ cfg.enable_syntax
    /\ ~Warned(STAGES[1], "rejected")
    /\ ~Warned(STAGES[1], "failed")
    /\ \E e \in Returned :
          /\ ~e.result.passed_quality_check
          /\ e.result.quality_metrics.spaces_replaced > 0

\* What the embedding model answered for (text1, text2) according to memo
Scored(text1, text2, memo) ==
    IF env.simModel THEN {m.v : m \in {n \in memo : n.a = text1 /\ n.b = text2}} ELSE {0}

\* What the readability formula answered for text
Graded(text) ==
    {m.g : m \in {n \in gradeMemo : n.t = text}}

\* |(modified - original) / original * 100| <= 5.0, the change being 0 for an
\* original grade of 0
WithinTolerance(orig_grade, mod_grade) ==
    \/ orig_grade = 0
    \/ 100 * Abs(mod_grade - orig_grade) <= 5 * Abs(orig_grade)

\* Both bounds of the composite acceptance rule, read from the metrics
BothBounds(metrics) ==
    /\ metrics.semantic_similarity >= cfg.quality_threshold
    /\ WithinTolerance(metrics.original_readability, metrics.modified_readability)

\* C2: once the final gate has run, the metrics are the collaborators' answers
\* for the original and the final candidate text, and passed_quality_check is
\* true exactly when the similarity is at least quality_threshold and the
\* readability grade changed by at most 5 percent; every returned text that
\* differs from the input satisfies both bounds.
C2_CompositeAcceptance ==
    /\ pc \in {"rollback", "return"}
          => /\ passed_quality_check <=> BothBounds(quality_metrics)
             /\ pc = "rollback" => ~passed_quality_check
             /\ (pc = "rollback" \/ passed_quality_check)
                   => /\ quality_metrics.semantic_similarity
                             \in Scored(original_text, current_text, simMemo)
                      /\ quality_metrics.original_readability \in Graded(original_text)
                      /\ quality_metrics.modified_readability \in Graded(current_text)
    /\ \A e \in Returned :
          /\ e.result.passed_quality_check <=> BothBounds(e.result.quality_metrics)
          /\ e.result.humanized # e.text => BothBounds(e.result.quality_metrics)

\* A call returned a text that differs from its input
C2_Witness ==
    \E e \in Returned :
        /\ e.result.humanized # e.text
        /\ e.result.quality_metrics.modified_readability
              # e.result.quality_metrics.original_readability

\* A step of a gated stage that did not fail: the candidate is scored against
\* the original text and nothing else is scored; it becomes the current text,
\* and the name is appended, exactly when the score reaches the threshold.
GatedStep(here, next, name, candidate) ==
    (pc = here /\ pc' = next /\ ~(Warned(name, "failed"))')
        => \E similarity \in Scored(original_text, candidate, simMemo') :
              /\ simMemo' \subseteq
                     simMemo \cup {[a |-> original_text, b |-> candidate, v |-> similarity]}
              /\ IF similarity >= cfg.quality_threshold
                 THEN /\ current_text' = candidate
                      /\ transformations_applied' = Append(transformations_applied, name)
                      /\ warnings' = warnings
                 ELSE /\ current_text' = current_text
                      /\ transformations_applied' = transformations_applied
                      /\ (Warned(name, "rejected"))'

\* C3: an enabled Syntax or Lexical stage scores its candidate against the
\* original text, accepts it (current text advanced, name recorded) if and
\* only if the similarity is at least quality_threshold, and on rejection
\* leaves the current text and the applied list as they were.
C3_GatedStages ==
    [][/\ cfg.enable_syntax
          => GatedStep("syntax", "semantic", STAGES[1], SyntaxCandidate("none").text)
       /\ cfg.enable_semantics
          => GatedStep("semantic", "unicode", STAGES[2], SemanticCandidate("none").text)
      ]_vars

\* The Lexical stage was rejected after the Syntax stage had changed the text
C3_Witness ==
    /\ pc = "unicode"
    /\ transformations_applied = <<STAGES[1]>>
    /\ current_text # original_text
    /\ Warned(STAGES[2], "rejected")

C5_FailedStageSkipped ==
    /\ [](pc = "final"
            => /\ cfg.enable_syntax
                  => \/ STAGES[1] \in Range(transformations_applied)
                     \/ Warned(STAGES[1], "rejected")
                     \/ Warned(STAGES[1], "failed")
               /\ cfg.enable_semantics
                  => \/ STAGES[2] \in Range(transformations_applied)
                     \/ Warned(STAGES[2], "rejected")
                     \/ Warned(STAGES[2], "failed")
               /\ cfg.enable_unicode => STAGES[3] \in Range(transformations_applied))
    /\ [][\A k \in 1..2 :
             (~Warned(STAGES[k], "failed") /\ (Warned(STAGES[k], "failed"))')
                => /\ pc = <<"syntax", "semantic">>[k]
                   /\ pc' = <<"semantic", "unicode">>[k]
                   /\ UNCHANGED <<original_text, current_text, transformations_applied>>
         ]_vars

\* The Lexical stage failed after the Syntax stage was accepted, and the Space
\* stage ran on the text the Syntax stage left
C5_Witness ==
    /\ pc = "final"
    /\ Warned(STAGES[2], "failed")
    /\ transformations_applied = <<STAGES[1], STAGES[3]>>
    /\ current_text # original_text

\* text is empty or holds whitespace only
OnlyWhitespace(text) ==
    \A k \in 1..Len(text) : text[k] \in WhiteSpace

\* C6: a humanize call on an empty or whitespace-only text is logged in the
\* step that makes it: it returns the text as original and as humanized, an
\* empty list, empty metrics and passed_quality_check true; no stage runs, no
\* collaborator is asked and no generator of any pipeline moves.
C6_BlankShortCircuit ==
    [][\A p \in Pipes :
          (/\ Len(log'[p]) = Len(log[p]) + 1
           /\ OnlyWhitespace(log'[p][Len(log'[p])].text))
              => /\ log'[p][Len(log'[p])].raised = FALSE
                 /\ log'[p][Len(log'[p])].result =
                        [original |-> log'[p][Len(log'[p])].text,
                         humanized |-> log'[p][Len(log'[p])].text,
                         transformations_applied |-> <<>>,
                         quality_metrics |-> <<>>,
                         passed_quality_check |-> TRUE]
                 /\ pc = "idle"
                 /\ pc' = "idle"
                 /\ warnings' = <<>>
                 /\ UNCHANGED <<rng, simMemo, gradeMemo, status>>
      ]_vars

\* A humanize call on a text of whitespace returned
C6_Witness ==
    \E p \in Pipes : \E k \in 1..Len(log[p]) :
        /\ log[p][k].text # <<>>
        /\ OnlyWhitespace(log[p][k].text)
        /\ log[p][k].result.passed_quality_check

\* C7: every result humanize returns has the input text as its 'original';
\* during a run original_text is the input and no step reassigns it.
C7_OriginalPreserved ==
    /\ [](/\ pc # "idle" => original_text = input
          /\ \A p \in Pipes : \A k \in 1..Len(log[p]) :
                ~log[p][k].raised => log[p][k].result.original = log[p][k].text)
    /\ [][(pc # "idle" /\ pc' # "idle") => UNCHANGED <<original_text, input>>]_vars

\* A call whose working copy advanced through two stages returned it
C7_Witness ==
    \E e \in Returned :
        /\ e.result.passed_quality_check
        /\ Len(e.result.transformations_applied) >= 2
        /\ e.result.humanized # e.result.original

\* The position of a stage name in STAGES, 0 for any other value
StageIndex(name) ==
    IF \E k \in 1..Len(STAGES) : STAGES[k] = name
    THEN CHOOSE k \in 1..Len(STAGES) : STAGES[k] = name
    ELSE 0

\* applied holds names of enabled stages only, in pipeline order and without
\* duplicates
WellFormed(applied) ==
    /\ \A k \in 1..Len(applied) :
          /\ StageIndex(applied[k]) # 0
          /\ <<cfg.enable_syntax, cfg.enable_semantics, cfg.enable_unicode>>[
                 StageIndex(applied[k])]
    /\ \A j, k \in 1..Len(applied) :
          j < k => StageIndex(applied[j]) < StageIndex(applied[k])

\* C8: transformations_applied is, at every point of a run and in every
\* result, a duplicate-free subsequence of STAGES without disabled stages; a
\* step of a run leaves it alone, appends one name or, in the final rollback
\* only, empties it; with only the Space stage enabled a result's list is
\* ['unicode_manipulation'] when the final gate passed and empty otherwise.
C8_AppliedList ==
    /\ [](/\ WellFormed(transformations_applied)
          /\ \A p \in Pipes : \A k \in 1..Len(log[p]) :
                ~log[p][k].raised
                   => WellFormed(log[p][k].result.transformations_applied)
          /\ \A e \in Returned :
                (cfg.enable_unicode /\ ~cfg.enable_syntax /\ ~cfg.enable_semantics)
                   => e.result.transformations_applied =
                          IF e.result.passed_quality_check THEN <<STAGES[3]>> ELSE <<>>)
    /\ [][(pc # "idle" /\ pc' # "idle")
             => \/ transformations_applied' = transformations_applied
                \/ \E k \in 1..Len(STAGES) :
                      transformations_applied' = Append(transformations_applied, STAGES[k])
                \/ /\ pc = "rollback"
                   /\ transformations_applied' = <<>>
         ]_vars

\* With only the Space stage enabled a call passed the final gate: the
\* returned list is ['unicode_manipulation']
C8_Witness ==
    /\ cfg.enable_unicode
    /\ ~cfg.enable_syntax
    /\ ~cfg.enable_semantics
    /\ \E e \in Returned : e.result.transformations_applied = <<STAGES[3]>>

\* C13: a pipeline is built exactly when its intensity is in [0, 1], whatever
\* its enable flags; construction with an intensity outside [0, 1] fails, and
\* a pipeline whose construction failed seeds no generator and serves no call.
C13_IntensityRejected ==
    \A p \in Pipes :
        /\ status[p] = "built" => (0 <= cfg.intensity /\ cfg.intensity <= 100)
        /\ status[p] = "failed" => (cfg.intensity < 0 \/ cfg.intensity > 100)
        /\ (quota[p] > 0 /\ (cfg.intensity < 0 \/ cfg.intensity > 100))
              => /\ log[p] = <<>>
                 /\ ~batchOut[p].called
                 /\ rng[p] = [space |-> 0, syntax |-> 0, semantic |-> 0]
                 /\ pc = "idle"

\* The construction of a pipeline with a negative intensity and the Space
\* stage disabled failed
C13_Witness ==
    /\ status[1] = "failed"
    /\ cfg.intensity < 0
    /\ ~cfg.enable_unicode

\* The stage of STAGES[k] has run in the current call and its candidate was
\* turned down: rejected with similarity 0, or skipped after a failure
TurnedDown(k) ==
    \/ Warned(STAGES[k], "failed")
    \/ \E j \in 1..Len(warnings) :
          /\ warnings[j] = [stage |-> STAGES[k], kind |-> "rejected", similarity |-> 0]

\* C15: without an embedding model, and with a quality threshold above 0, no
\* similarity call raises or asks a model; the candidates of the Syntax and
\* Lexical stages, when enabled, are never accepted (each is rejected with
\* similarity 0 unless its stage failed), the final gate measures
\* similarity 0 and fails, and every humanize call that returns returns its
\* input text with an empty applied list, passed_quality_check being false
\* for every non-blank input.
C15_NoModelRejects ==
    (~env.simModel /\ cfg.quality_threshold > 0)
       => /\ simMemo = {}
          /\ \A k \in 1..Len(transformations_applied) :
                transformations_applied[k] = STAGES[3]
          /\ (cfg.enable_syntax /\ pc \in {"semantic", "unicode", "final", "rollback", "return"})
                => TurnedDown(1)
          /\ (cfg.enable_semantics /\ pc \in {"unicode", "final", "rollback", "return"})
                => TurnedDown(2)
          /\ pc \in {"rollback", "return"}
                => /\ quality_metrics.semantic_similarity = 0
                   /\ ~passed_quality_check
          /\ \A p \in Pipes : \A k \in 1..Len(log[p]) :
                ~log[p][k].raised
                   => /\ log[p][k].result.humanized = log[p][k].text
                      /\ log[p][k].result.transformations_applied = <<>>
          /\ \A e \in Returned :
                /\ ~e.result.passed_quality_check
                /\ e.result.quality_metrics.semantic_similarity = 0

\* Without a model, a call with the three stages enabled, none of which
\* failed, whose Space stage replaced spaces, returned its input
C15_Witness ==
    /\ ~env.simModel
    /\ cfg.enable_syntax
    /\ cfg.enable_semantics
    /\ cfg.enable_unicode
    /\ ~Warned(STAGES[1], "failed")
    /\ ~Warned(STAGES[2], "failed")
    /\ \E e \in Returned :
          /\ e.result.humanized = e.text
          /\ e.result.quality_metrics.spaces_replaced > 0

(***************************************************************************)
(* The properties of pipelines compared with each other (SpecPair).         *)
(***************************************************************************)
\* C9 as stated, determinism: two pipelines freshly built from the same
\* arguments and the same integer seed return, for the same text, the same
\* humanized text, the same applied list and the same metrics.
C9_Determinism ==
    (/\ cfg.seed # NoSeed
     /\ Len(log[1]) >= 1
     /\ Len(log[2]) >= 1
     /\ log[1][1].text = log[2][1].text)
        => log[1][1].result = log[2][1].result

\* C10 as stated, documents of a batch do not interfere: every result of
\* batch_humanize(texts) is what a freshly built pipeline of the same arguments
\* and seed, in the same process, returns for that text alone.
C10_BatchIndependence ==
    (/\ cfg.seed # NoSeed
     /\ hashSeed[1] = hashSeed[2]
     /\ batchOut[1].called
     /\ ~batchOut[1].raised
     /\ Len(log[2]) = 1)
        => \A i \in 1..Len(batchOut[1].texts) :
              batchOut[1].texts[i] = log[2][1].text
                 => batchOut[1].results[i] = log[2][1].result

(***************************************************************************)
(* The properties of batch_humanize (SpecBatch).                            *)
(***************************************************************************)
\* C11 as stated, a failure is local to its document: once batch_humanize is
\* over, humanize has been called for every text of the list, and the result
\* of every call that did not raise is among the results returned.
C11_BatchFailureLocal ==
    \A p \in Pipes :
        batchOut[p].called
           => /\ Len(log[p]) = Len(batchOut[p].texts)
              /\ \A k \in 1..Len(log[p]) :
                    ~log[p][k].raised
                       => \E i \in 1..Len(batchOut[p].results) :
                             batchOut[p].results[i] = log[p][k].result

\* The results collected for the texts of a list, so far or in the end
InOrder(texts, results) ==
    /\ Len(results) <= Len(texts)
    /\ \A i \in 1..Len(results) : results[i].original = texts[i]

\* C12: a batch_humanize call that returns returns one result per text of
\* its list, blank texts included, in the order of the list: the lengths are
\* equal and the original of result i is text i; while it runs, the results
\* collected so far are those of the first texts, in order.
C12_BatchOrder ==
    /\ batch.on => InOrder(batch.texts, batch.results)
    /\ \A p \in Pipes :
          (batchOut[p].called /\ ~batchOut[p].raised)
             => /\ Len(batchOut[p].results) = Len(batchOut[p].texts)
                /\ InOrder(batchOut[p].texts, batchOut[p].results)

\* A batch of a whitespace text followed by a text of words returned
C12_Witness ==
    /\ batchOut[1].called
    /\ ~batchOut[1].raised
    /\ Len(batchOut[1].texts) = 2
    /\ IsBlank(batchOut[1].texts[1])
    /\ batchOut[1].texts[1] # <<>>
    /\ ~IsBlank(batchOut[1].texts[2])
    /\ batchOut[1].results[2].humanized # batchOut[1].texts[2]

\* C14 as stated, a quality threshold outside [0, 1] is fatal at
\* construction: no pipeline is built with one, and no humanize call runs or
\* has run with one.
C14_ThresholdRejected ==
    (\/ \E p \in Pipes : status[p] = "built" \/ log[p] # <<>>
     \/ pc # "idle")
        => (0 <= cfg.quality_threshold /\ cfg.quality_threshold <= 100)

(***************************************************************************)
(* The properties of the SpaceManipulator called directly (SpecSpace).      *)
(***************************************************************************)
\* The eight non-ASCII space variants, by code point
EightVariants ==
    {"U+00A0", "U+2002", "U+2003", "U+2009", "U+200A", "U+200B", "U+2007", "U+202F"}

\* The positions of the ASCII spaces of text
SpacesOf(text) ==
    {i \in 1..Len(text) : text[i] = " "}

\* C16: the text replace_spaces returns has the length of its input; every
\* position that does not hold U+0020 in the input holds the same character
\* in the output; every position that holds U+0020 in the input holds U+0020
\* or one of the eight variants in the output; the total of the counts of
\* analyze_distribution is the same for input and output.
C16_ShapePreserved ==
    spaceCall # NoCall
       => /\ Len(spaceCall.modified) = Len(spaceCall.text)
          /\ Cardinality(EightVariants) = 8
          /\ \A i \in 1..Len(spaceCall.text) :
                IF i \in SpacesOf(spaceCall.text)
                THEN spaceCall.modified[i] \in {" "} \cup EightVariants
                ELSE spaceCall.modified[i] = spaceCall.text[i]
          /\ Sum(analyze_distribution(spaceCall.modified))
                = Sum(analyze_distribution(spaceCall.text))

\* A call without boundary preservation on a text with a line break and
\* spaces around it replaced the spaces next to the line break
C16_Witness ==
    /\ spaceCall # NoCall
    /\ ~spaceCall.preserve_boundaries
    /\ \E i \in SpacesOf(spaceCall.text) :
          /\ i + 2 \in SpacesOf(spaceCall.text)
          /\ spaceCall.text[i + 1] = "\n"
          /\ spaceCall.modified[i] \in EightVariants
          /\ spaceCall.modified[i + 2] \in EightVariants

\* The ASCII spaces of text that are its first or last character or stand
\* next to a line break
AtBoundary(text) ==
    {i \in SpacesOf(text) :
        \/ i = 1
        \/ i = Len(text)
        \/ (i > 1 /\ text[i - 1] = "\n")
        \/ (i < Len(text) /\ text[i + 1] = "\n")}

\* C17: with preserve_boundaries true, an ASCII space that is the first
\* character, the last character, or next to a line break is U+0020 in the
\* output.
C17_BoundariesPreserved ==
    (spaceCall # NoCall /\ spaceCall.preserve_boundaries)
       => \A i \in AtBoundary(spaceCall.text) : spaceCall.modified[i] = " "

\* A call with boundary preservation on a text with spaces next to a line
\* break replaced an inner space and kept those next to the line break
C17_Witness ==
    /\ spaceCall # NoCall
    /\ spaceCall.preserve_boundaries
    /\ \E i \in AtBoundary(spaceCall.text) : 1 < i /\ i < Len(spaceCall.text)
    /\ \E i \in SpacesOf(spaceCall.text) : spaceCall.modified[i] \in EightVariants

\* C18: at intensity 1.0 without boundary preservation no ASCII space is
\* left in the output, whatever the generator's state: the count of U+0020 is
\* 0, strictly less than in any input with a space, and goes from 2 to 0 for
\* 'Hello world test'.
C18_FullIntensity ==
    (spaceCall # NoCall /\ cfg.intensity = 100 /\ ~spaceCall.preserve_boundaries)
       => /\ SpacesOf(spaceCall.modified) = {}
          /\ SpacesOf(spaceCall.text) # {}
                => Cardinality(SpacesOf(spaceCall.modified))
                      < Cardinality(SpacesOf(spaceCall.text))
          /\ spaceCall.text = <<"H","e","l","l","o"," ","w","o","r","l","d"," ","t","e","s","t">>
                => /\ Cardinality(SpacesOf(spaceCall.text)) = 2
                   /\ Cardinality(SpacesOf(spaceCall.modified)) = 0

\* 'Hello world test' went through a call at intensity 1.0 without boundary
\* preservation
C18_Witness ==
    /\ spaceCall # NoCall
    /\ cfg.intensity = 100
    /\ ~spaceCall.preserve_boundaries
    /\ spaceCall.text = <<"H","e","l","l","o"," ","w","o","r","l","d"," ","t","e","s","t">>
    /\ spaceCall.modified # spaceCall.text

\* C19: at intensity 0.0 replace_spaces returns its input, whatever the text,
\* the seed and the boundary flag; at every intensity a text without an ASCII
\* space is returned as it is.
C19_ZeroIntensity ==
    spaceCall # NoCall
       => /\ cfg.intensity = 0 => spaceCall.modified = spaceCall.text
          /\ SpacesOf(spaceCall.text) = {} => spaceCall.modified = spaceCall.text

\* A call at intensity 0.0 without boundary preservation, on a text with
\* inner spaces, by a manipulator seeded from the system's entropy
C19_Witness ==
    /\ spaceCall # NoCall
    /\ cfg.intensity = 0
    /\ cfg.seed = NoSeed
    /\ ~spaceCall.preserve_boundaries
    /\ Cardinality(SpacesOf(spaceCall.text)) = 2
    /\ spaceCall.modified = spaceCall.text

\* C20 as stated: for modified = replace_spaces(original), total_spaces is the
\* number of ASCII spaces of original, spaces_replaced the number of those
\* that are no longer U+0020 in modified, and replacement_rate is
\* spaces_replaced / total_spaces * 100 (in whole percent), 0 when original
\* has no spaces.
C20_ReplacementStats ==
    spaceCall # NoCall
       => /\ spaceCall.stats.total_spaces = Cardinality(SpacesOf(spaceCall.text))
          /\ spaceCall.stats.spaces_replaced
                = Cardinality(SpacesOf(spaceCall.text) \ SpacesOf(spaceCall.modified))
          /\ spaceCall.stats.replacement_rate
                = IF SpacesOf(spaceCall.text) = {} THEN 0
                  ELSE (spaceCall.stats.spaces_replaced * 100)
                          \div spaceCall.stats.total_spaces

(***************************************************************************)
(* The properties of humanize on texts of several lines (SpecLines).        *)
(***************************************************************************)
\* The number of words of text before each of its line breaks, in order
BreakPlaces(text) ==
    [k \in 1..Count(text, NL) |->
        Len(Split(SubSeq(text, 1,
                         Ordered({i \in 1..Len(text) : text[i] = NL})[k])))]

\* C21 as stated, with preserve_formatting at its default the formatting is
\* preserved: the humanized text of every result has the line breaks of the
\* input, as many of them and each after as many words, or, where the words
\* were rewritten, at least as many of them.
C21_LineBreaksPreserved ==
    \A e \in Returned :
        /\ Count(e.result.humanized, NL) = Count(e.text, NL)
        /\ e.result.transformations_applied \in {<<>>, <<STAGES[3]>>}
              => BreakPlaces(e.result.humanized) = BreakPlaces(e.text)

\* The generator state after k draws from state s
RECURSIVE Advance(_, _)
Advance(s, k) ==
    IF k = 0 THEN s ELSE Advance(RngNext(s), k - 1)

\* The candidate positions of a call: the ASCII spaces, less those that
\* boundary preservation skips
Candidates(text, preserve_boundaries) ==
    IF preserve_boundaries THEN SpacesOf(text) \ AtBoundary(text) ELSE SpacesOf(text)

\* C22: in replace_spaces with intensity > 0 the generator advances by exactly
\* one draw per candidate ASCII space plus one draw per replaced space: the
\* other characters and the spaces skipped by boundary preservation consume
\* none; and for a text without boundary space the output is the output of
\* the same call, from the same generator state, with preserve_boundaries
\* negated.
C22_DrawsOnlyForCandidates ==
    [][(status' = status /\ cfg.intensity > 0 /\ spaceCall' # NoCall) =>
          /\ rng'[1].space =
                Advance(rng[1].space,
                        Cardinality(Candidates(spaceCall'.text,
                                               spaceCall'.preserve_boundaries))
                        + Cardinality({i \in SpacesOf(spaceCall'.text) :
                                          spaceCall'.modified[i] \in EightVariants}))
          /\ AtBoundary(spaceCall'.text) = {} =>
                spaceCall'.modified =
                    replace_spaces(spaceCall'.text, ~spaceCall'.preserve_boundaries,
                                   cfg.intensity, rng[1].space).text]_vars

\* A call with boundary preservation at an intensity above 0 on a text with
\* spaces at both ends and a line break with spaces around it replaced a
\* candidate space, and a second text without boundary space exists in the
\* inputs
C22_Witness ==
    /\ spaceCall # NoCall
    /\ cfg.intensity > 0
    /\ spaceCall.preserve_boundaries
    /\ AtBoundary(spaceCall.text) # {}
    /\ \E i \in Candidates(spaceCall.text, TRUE) : spaceCall.modified[i] \in EightVariants

\* Whether the parse of sentence supplies the three roles passive_to_active
\* looks for: a passive subject, an agent, a participle with a passive
\* auxiliary
ThreeRoles(sentence) ==
    /\ \E k \in 1..Len(Tokenize(sentence)) : DepOf(Tokenize(sentence), k) = "nsubjpass"
    /\ \E k \in 1..Len(Tokenize(sentence)) :
          DepOf(Tokenize(sentence), k) \in {"agent", "pobj_by"}
    /\ \E k \in 1..Len(Tokenize(sentence)) : IsPassiveVerb(Tokenize(sentence), k)

\* C23: passive_to_active returns confidence 0.8 and a sentence built from
\* the agent, the verb's lemma and the passive subject exactly when the
\* sentence is flagged passive and the parse supplies the three roles; in
\* every other case it returns the input sentence with confidence 0.0.
C23_PassiveToActive ==
    (engineCall # NoCall /\ engineCall.method = "passive_to_active") =>
        IF is_passive_voice(engineCall.arg) /\ ThreeRoles(engineCall.arg)
        THEN /\ engineCall.result.conf = 80
             /\ engineCall.result.text # engineCall.arg
             /\ EndsWith(engineCall.result.text, <<".">>)
        ELSE engineCall.result = [text |-> engineCall.arg, conf |-> 0]

\* A passive sentence with subject, agent and participle was rebuilt, the
\* agent first
C23_Witness ==
    /\ engineCall # NoCall
    /\ engineCall.method = "passive_to_active"
    /\ engineCall.arg = <<"T","h","e"," ","r","e","p","o","r","t"," ","w","a","s"," ","c","o","m","p","l","e","t","e","d"," ","b","y"," ","t","h","e"," ","t","e","a","m",".">>
    /\ engineCall.result.conf = 80
    /\ StartsWith(engineCall.result.text, <<"T","e","a","m"," ","c","o","m","p","l","e","t","e"," ","r","e","p","o","r","t">>)

\* The words of a list of sentences in order, lower-cased, without their
\* punctuation and without the connectors a merge inserts
PlainWords(sentences) ==
    LET words == Split(Join(sentences, <<SP>>))
        plain == [k \in 1..Len(words) |-> Lower(Strip(words[k], Punct))]
    IN  FilterIdx(plain, {k \in 1..Len(plain) : plain[k] \notin Range(CONNECTORS)}, 1)

\* What holds at every point of a direct vary_sentence_complexity call: the
\* index is within the list, the output so far has one element per consumed
\* sentence, plus one per split, less one per merge, and holds the words of
\* the consumed sentences, each once, in their order
VaryConsumedOnce ==
    (engineCall # NoCall /\ engineCall.method = "vary_sentence_complexity") =>
        /\ engineCall.result.i <= Len(engineCall.arg)
        /\ Len(engineCall.result.sentences) =
              engineCall.result.i + engineCall.result.splits - engineCall.result.merges
        /\ PlainWords(engineCall.result.sentences) =
              PlainWords(SubSeq(engineCall.arg, 1, engineCall.result.i))
        /\ engineCall.result.returned =>
              /\ engineCall.result.i = Len(engineCall.arg)
              /\ engineCall.result.sentences =
                    vary_sentence_complexity(engineCall.arg, engineCall.rng).sentences
              /\ engineCall.result.conf =
                    vary_sentence_complexity(engineCall.arg, engineCall.rng).conf

\* C24: vary_sentence_complexity terminates on every sentence list: every
\* iteration of its loop increases the index and only appends to the output
\* (what a split or a merge produced is not examined again), every sentence
\* is consumed once and in order, the output has n + splits - merges
\* elements, and a call that runs returns.
C24_VaryTerminates ==
    /\ []VaryConsumedOnce
    /\ [][(VaryRunning /\ engineCall'.arg = engineCall.arg) =>
            /\ engineCall'.result.i >= engineCall.result.i
            /\ engineCall'.result.returned \/ engineCall'.result.i > engineCall.result.i
            /\ Len(engineCall'.result.sentences) >= Len(engineCall.result.sentences)
            /\ SubSeq(engineCall'.result.sentences, 1, Len(engineCall.result.sentences))
                  = engineCall.result.sentences]_vars
    /\ VaryRunning ~> ~VaryRunning

\* A call on a sentence of more than 30 words with commas followed by two
\* short sentences has returned after one split and one merge
C24_Witness ==
    /\ engineCall # NoCall
    /\ engineCall.method = "vary_sentence_complexity"
    /\ engineCall.result.returned
    /\ Len(engineCall.arg) = 3
    /\ engineCall.result.splits = 1
    /\ engineCall.result.merges = 1
    /\ Len(engineCall.result.sentences) = 3

\* C25: when the first two sentences of the list each have fewer than 8
\* words, vary_sentence_complexity merges them into the first sentence without
\* its trailing period, one connector of and, while, as, and the second
\* sentence with its first letter lower-cased and every other character
\* unchanged.
C25_MergeLowersFirstLetter ==
    (/\ engineCall # NoCall
     /\ engineCall.method = "vary_sentence_complexity"
     /\ engineCall.result.returned
     /\ Len(engineCall.arg) >= 2
     /\ Len(Split(engineCall.arg[1])) < ShortWords
     /\ Len(Split(engineCall.arg[2])) < ShortWords) =>
        \E connector \in {<<"a","n","d">>, <<"w","h","i","l","e">>, <<"a","s">>} :
            engineCall.result.sentences[1] =
                RStrip(engineCall.arg[1], {"."}) \o <<SP>> \o connector \o <<SP>>
                    \o <<ToLower(engineCall.arg[2][1])>> \o From(engineCall.arg[2], 2)

\* The tokens of text whose form without punctuation, in lower case, is a
\* marker key
MarkerTokens(text) ==
    {k \in 1..Len(Split(text)) :
        \E m \in 1..Len(DISCOURSE_MARKERS) :
            Lower(Strip(Split(text)[k], Punct)) = DISCOURSE_MARKERS[m].marker}

\* The alternatives of the marker key that word is, with the capital of word
AlternativesFor(word) ==
    {IF IsUpper(word[1]) THEN Capitalize(alt) ELSE alt :
        alt \in UNION {Range(DISCOURSE_MARKERS[m].alternatives) :
                          m \in {n \in 1..Len(DISCOURSE_MARKERS) :
                                    Lower(Strip(word, Punct)) = DISCOURSE_MARKERS[n].marker}}}

\* The punctuation at the end of word
TrailingOf(word) ==
    From(word, Len(RStrip(word, Punct)) + 1)

\* The texts in which the tokens of positions are each replaced by one of
\* their alternatives followed by the token's trailing punctuation, and the
\* other tokens are as in text
Alternated(text, positions) ==
    {Join([k \in 1..Len(Split(text)) |->
              IF k \in positions THEN pick[k] \o TrailingOf(Split(text)[k])
              ELSE Split(text)[k]], <<SP>>) :
        pick \in [positions -> UNION {AlternativesFor(Split(text)[k]) : k \in positions}]}

\* C26: replace_discourse_markers replaces every token whose form without
\* punctuation, in lower case, is a marker key by one of the alternatives of
\* that key, capitalised if and only if the first letter of the token was
\* uppercase, followed by all the trailing punctuation of the token; the
\* replacement count is the number of such tokens.
C26_MarkersReplaced ==
    (engineCall # NoCall /\ engineCall.method = "replace_discourse_markers") =>
        /\ engineCall.result.replacements = Cardinality(MarkerTokens(engineCall.arg))
        /\ engineCall.result.text \in Alternated(engineCall.arg, MarkerTokens(engineCall.arg))
        /\ \A k \in MarkerTokens(engineCall.arg) :
              \E alt \in AlternativesFor(Split(engineCall.arg)[k]) :
                  Contains(engineCall.result.text,
                           alt \o TrailingOf(Split(engineCall.arg)[k]))

\* The phrase keys that occur in text, whatever the case
Detected(text) ==
    {p \in 1..Len(PHRASE_SUBSTITUTIONS) :
        Contains(Lower(text), PHRASE_SUBSTITUTIONS[p].phrase)}

\* C27: for each phrase key that replace_phrases detects in the text
\* whatever the case, the lower-case occurrences and the capitalised
\* occurrences are both replaced in the call, by one alternative drawn once
\* (capitalised for the capitalised occurrences): neither form of the phrase
\* remains.
C27_BothCasesReplaced ==
    (engineCall # NoCall /\ engineCall.method = "replace_phrases") =>
        /\ \A p \in Detected(engineCall.arg) :
              /\ ~Contains(engineCall.result.text, PHRASE_SUBSTITUTIONS[p].phrase)
              /\ ~Contains(engineCall.result.text,
                           Capitalize(PHRASE_SUBSTITUTIONS[p].phrase))
        /\ \A p \in 1..Len(PHRASE_SUBSTITUTIONS) :
              Detected(engineCall.arg) = {p} =>
                  \E k \in 1..Len(PHRASE_SUBSTITUTIONS[p].alternatives) :
                      engineCall.result.text =
                          Replace(Replace(engineCall.arg, PHRASE_SUBSTITUTIONS[p].phrase,
                                          PHRASE_SUBSTITUTIONS[p].alternatives[k]),
                                  Capitalize(PHRASE_SUBSTITUTIONS[p].phrase),
                                  Capitalize(PHRASE_SUBSTITUTIONS[p].alternatives[k]))
        /\ Detected(engineCall.arg) = {} => engineCall.result.text = engineCall.arg

\* The text and the generator after the marker pass and the phrase pass of a
\* replace_semantics call
AfterPhrases(text, state) ==
    replace_phrases(replace_discourse_markers(text, state).text,
                    replace_discourse_markers(text, state).rng)

\* The content words among tokens: verbs, adjectives and adverbs of more than
\* 4 characters
ContentTokens(tokens) ==
    {k \in 1..Len(tokens) : PosOf(tokens[k]) \in {"VERB", "ADJ", "ADV"} /\ Len(tokens[k]) > 4}

\* The synonym found for word with the generator in state state
SynonymOf(word, state) ==
    replace_with_synonym(word, PosMap(PosOf(word)), cfg.formality, state, hashSeed[1], "none")

\* The text made of tokens, the first content word replaced by its synonym
\* when the trial drawn in state state succeeds at rate intensity and the
\* synonym's confidence exceeds 0.5, every other token as it is
TrialOutcome(tokens, intensity, state) ==
    FixPunct(Join([k \in 1..Len(tokens) |->
                      IF /\ k \in ContentTokens(tokens)
                         /\ \A j \in ContentTokens(tokens) : k <= j
                         /\ RandomPct(state) < intensity
                         /\ SynonymOf(tokens[k], RngNext(state)).conf > 50
                      THEN SynonymOf(tokens[k], RngNext(state)).text
                      ELSE tokens[k]], <<SP>>), 1)

\* The calls of replace_semantics on a text with at most one content word
\* that has a synonym
OneSynonymCall ==
    /\ engineCall # NoCall
    /\ engineCall.method = "replace_semantics"
    /\ \A k \in ContentTokens(Tokenize(AfterPhrases(engineCall.arg, engineCall.rng).text)) :
          \/ \A j \in ContentTokens(Tokenize(AfterPhrases(engineCall.arg,
                                                           engineCall.rng).text)) : k <= j
          \/ \A s \in RngStates :
                SynonymOf(Tokenize(AfterPhrases(engineCall.arg, engineCall.rng).text)[k],
                          s).conf = 0

\* C28 as stated: at every intensity in [0,1], each content word undergoes a
\* trial at rate = intensity and is replaced if and only if the trial
\* succeeds and the synonym's confidence is > 0.5, every other token is
\* emitted unchanged, and at intensity 0.0 no content word is substituted.
C28_TrialAtEveryIntensity ==
    OneSynonymCall =>
        /\ engineCall.result.text =
              TrialOutcome(Tokenize(AfterPhrases(engineCall.arg, engineCall.rng).text),
                           engineCall.intensity,
                           AfterPhrases(engineCall.arg, engineCall.rng).rng)
        /\ engineCall.intensity = 0 =>
              engineCall.result.text = AfterPhrases(engineCall.arg, engineCall.rng).text

\* C28, amended: at an intensity above 0.3, each content word undergoes a
\* trial at rate = intensity and is replaced if and only if the trial
\* succeeds and the synonym's confidence is > 0.5, every other token emitted
\* unchanged; at an intensity of 0.3 or less no trial is drawn and no content
\* word is substituted: the text and the generator are those the marker and
\* phrase passes left.
C28_TrialAboveGate ==
    OneSynonymCall =>
        IF engineCall.intensity > 30
        THEN engineCall.result.text =
                 TrialOutcome(Tokenize(AfterPhrases(engineCall.arg, engineCall.rng).text),
                              engineCall.intensity,
                              AfterPhrases(engineCall.arg, engineCall.rng).rng)
        ELSE /\ engineCall.result.text = AfterPhrases(engineCall.arg, engineCall.rng).text
             /\ engineCall.result.rng = AfterPhrases(engineCall.arg, engineCall.rng).rng

\* A call at intensity 0.3 on a text whose verb has a synonym drew no trial
\* and kept the verb, though a trial in the state of the generator would have
\* succeeded
C28_Witness ==
    /\ OneSynonymCall
    /\ engineCall.intensity = 30
    /\ RandomPct(AfterPhrases(engineCall.arg, engineCall.rng).rng) < 30
    /\ Contains(engineCall.arg, <<"i","m","p","r","o","v","e">>)
    /\ Contains(engineCall.result.text, <<"i","m","p","r","o","v","e">>)
    /\ engineCall.result.rng = AfterPhrases(engineCall.arg, engineCall.rng).rng

\* C29: under any interleaving of NLPParser constructions by the threads of
\* one process, the language model is loaded at most once and every parser
\* constructed holds the same model handle (the class attribute, which only a
\* load assigns, is then never replaced).
C29_ModelLoadedOnce ==
    /\ nlp_class.loads <= 1
    /\ \A t \in Threads :
          parser[t].pc = "done" => parser[t].nlp = 1

\* Whether the entries of metrics that are functions of the two texts are
\* those of the pair (original, modified)
Describes(metrics, original, modified) ==
    /\ metrics.original_word_count = word_count(original)
    /\ metrics.modified_word_count = word_count(modified)
    /\ metrics.spaces_replaced = get_replacement_stats(original, modified).spaces_replaced
    /\ metrics.space_replacement_rate =
          get_replacement_stats(original, modified).replacement_rate

\* C30 as stated: in every result of humanize on a non-blank text the
\* quality_metrics describe the pair (original, humanized) of the result,
\* after a final rollback too, where humanized is the original: then
\* spaces_replaced is 0 and no change is reported.
C30_MetricsOfReturned ==
    \A e \in Returned :
        /\ Describes(e.result.quality_metrics, e.result.original, e.result.humanized)
        /\ e.result.humanized = e.result.original =>
              /\ e.result.quality_metrics.spaces_replaced = 0
              /\ e.result.quality_metrics.modified_word_count =
                    e.result.quality_metrics.original_word_count
              /\ e.result.quality_metrics.modified_readability =
                    e.result.quality_metrics.original_readability

\* C30, amended: the quality_metrics of a result are those computed once, at
\* the final gate, for the pair (original, final candidate): the rollback
\* replaces the candidate by the original and leaves the metrics as they are,
\* and the result carries them.  They describe the pair (original, humanized)
\* of a result whose passed_quality_check is true; after a rollback they
\* describe the candidate that was discarded.
C30_MetricsOfCandidate ==
    /\ [](\A e \in Returned :
            e.result.passed_quality_check =>
                Describes(e.result.quality_metrics, e.result.original, e.result.humanized))
    /\ [][(pc = "final" /\ pc' \in {"rollback", "return"}) =>
             Describes(quality_metrics', original_text, current_text)]_vars
    /\ [][pc = "rollback" =>
             /\ quality_metrics' = quality_metrics
             /\ current_text' = original_text]_vars
    /\ [][(pc = "return" /\ pc' = "idle") =>
             log'[cur][Len(log'[cur])].result.quality_metrics = quality_metrics]_vars

\* A call whose candidate differed from the original was rolled back: the
\* result carries the original as humanized text and metrics that are not
\* those of the pair it carries
C30_Witness ==
    \E e \in Returned :
        /\ ~e.result.passed_quality_check
        /\ e.result.humanized = e.result.original
        /\ ~Describes(e.result.quality_metrics, e.result.original, e.result.humanized)
====
